---- MODULE Spec2Model ----
(***************************************************************************)
(* A model of the agent decision core of Identity-Matrix/api/app:          *)
(*   agent_engine.py   candidate generation, interrupts, decay, effects    *)
(*   agent_worker.py   execute_action and process_agent_tick               *)
(*   agent_database.py context building, tick lock, persisted rows         *)
(*   main.py           the two entry points that run a tick                *)
(*                                                                         *)
(* Numbers.  Needs are Python floats in [0,1] (mood in [-1,1]); here they  *)
(* are integers in thousandths (1.0 is 1000), and a product or quotient is *)
(* rounded down to a thousandth.  Times are whole seconds.  Optional[T] is *)
(* a sequence of length at most one: None is <<>>, a value v is <<v>>.     *)
(*                                                                         *)
(* Three specifications share the module:                                  *)
(*   SpecFn    the pure functions of agent_engine.py applied to inputs     *)
(*   SpecLock  concurrent polls of one agent around the tick lock          *)
(*   Spec      the tick state machine of one agent over its stored rows    *)
(***************************************************************************)
EXTENDS Integers, Sequences, FiniteSets, TLC

VARIABLES
    fn_state,      \* SpecFn: the AgentState the pure functions are applied to
    fn_call,       \* SpecFn: the last call: its name, argument, result
    fn_calls,      \* SpecFn: how many calls have been chained
    fn_memory,     \* SpecFn: the agent_social_memory rows of one avatar
    fn_upserts,    \* SpecFn: how many upserts each other avatar has had
    writer,        \* SpecWriters: the endpoint that is writing agent_state
    memory_table,  \* SpecUpserts: the rows of agent_social_memory, oldest first
    upsert_call,   \* SpecUpserts: each update_social_memory call: where it is
    tick_lock,     \* SpecLock: whether the agent's tick lock is held
    poll,          \* SpecLock: each poll of the agent: where it is, what it got
    now,           \* Spec: the wall clock, in seconds
    ticks,         \* Spec: how many ticks have run
    agent_state,   \* Spec: the agent's agent_state row, if any
    agent_personality,    \* Spec: the agent's agent_personality row, if any
    user_position,        \* Spec: the agent's user_positions row, if any
    agent_social_memory,  \* Spec: the agent's agent_social_memory rows
    world_interactions,   \* Spec: the location ids of its world_interactions rows
    tick           \* Spec: what the last process_agent_tick did and returned

fnVars == <<fn_state, fn_call, fn_calls, fn_memory, fn_upserts>>
lockVars == <<tick_lock, poll>>
rowVars == <<agent_state, agent_personality, user_position, agent_social_memory,
             world_interactions>>
tickVars == <<now, ticks, rowVars, tick>>
memVars == <<memory_table, upsert_call>>
nonFnVars == <<lockVars, tickVars, writer, memVars>>
nonLockVars == <<fnVars, tickVars, writer, memVars>>
nonTickVars == <<fnVars, lockVars, writer, memVars>>
nonMemVars == <<fnVars, lockVars, tickVars, writer>>
vars == <<fnVars, lockVars, tickVars, writer, memVars>>

----------------------------------------------------------------------------
(* Optional values and small arithmetic helpers *)

None == <<>>
Some(v) == <<v>>
IsSome(o) == o # <<>>
Get(o) == o[1]

Min(a, b) == IF a <= b THEN a ELSE b
Max(a, b) == IF a >= b THEN a ELSE b
Abs(a) == IF a >= 0 THEN a ELSE 0 - a
Sign(a) == IF a > 0 THEN 1 ELSE IF a < 0 THEN 0 - 1 ELSE 0

\* floor(n * a / sqrt(d2)) for 0 <= a, a*a <= d2, d2 > 0: the largest k in 0..n
\* with (k * sqrt(d2))^2 <= (n * a)^2.
FloorOfScaled(n, a, d2) ==
    CHOOSE k \in 0..n : /\ k * k * d2 <= n * n * a * a
                        /\ \A j \in 0..n : j * j * d2 <= n * n * a * a => j <= k

\* ceil(n * a / sqrt(d2)) under the same conditions.
CeilOfScaled(n, a, d2) ==
    CHOOSE k \in 0..n : /\ k * k * d2 >= n * n * a * a
                        /\ \A j \in 0..n : j * j * d2 >= n * n * a * a => j >= k

----------------------------------------------------------------------------
(* agent_models.py: the value ranges pydantic enforces on construction *)

NeedMax == 1000
MoodMin == 0 - NeedMax

Actions == {"idle", "wander", "walk_to_location", "interact_food",
            "interact_karaoke", "interact_rest", "interact_social_hub",
            "interact_wander_point", "initiate_conversation",
            "join_conversation", "leave_conversation", "avoid_avatar",
            "move", "stand_still"}

\* AgentState(...) raises a ValidationError unless every need is in range.
AgentStateValid(s) ==
    /\ s.energy >= 0 /\ s.energy <= NeedMax
    /\ s.hunger >= 0 /\ s.hunger <= NeedMax
    /\ s.loneliness >= 0 /\ s.loneliness <= NeedMax
    /\ s.mood >= MoodMin /\ s.mood <= NeedMax

\* ActionTarget(target_type, target_id, x, y); the name is only logged.
ActionTarget(type, id, x, y) ==
    [target_type |-> type, target_id |-> id, x |-> x, y |-> y]

\* SelectedAction(action_type, target, utility_score, duration_seconds)
SelectedAction(type, target, score, duration) ==
    [action_type |-> type, target |-> target, utility_score |-> score,
     duration_seconds |-> duration]

\* CandidateAction(action_type, target), its score not yet filled in.
CandidateAction(type, target) == [action_type |-> type, target |-> target]

----------------------------------------------------------------------------
(* agent_engine.py: DecisionConfig *)

CONVERSATION_RADIUS == 15
SOCIAL_APPROACH_RADIUS == 30
LONELINESS_GROWTH == 20
MAP_WIDTH == 60
MAP_HEIGHT == 40
DISLIKE_SENTIMENT == 0 - 300
AVOID_EXTRA_RADIUS == 4
FLEE_DISTANCE == 5
DECAY_INTERVAL == 300
MOOD_DECAY == 5
MOOD_FLOOR == 300
PLAYER_SCORE == 20000
ROBOT_SCORE == 10000

----------------------------------------------------------------------------
(* agent_engine.py: state updates *)

\* The field values apply_state_decay hands to AgentState(...); tick_factor is
\* elapsed_seconds / 300, and mood * (1 - 0.005 * tick_factor) has only a floor.
apply_state_decay(state, elapsed_seconds) ==
    [state EXCEPT
        !.energy = NeedMax,
        !.hunger = 0,
        !.loneliness = Min(NeedMax,
                           @ + (LONELINESS_GROWTH * elapsed_seconds) \div DECAY_INTERVAL),
        !.mood = Max(MOOD_FLOOR,
                     (@ * (NeedMax * DECAY_INTERVAL - MOOD_DECAY * elapsed_seconds))
                         \div (NeedMax * DECAY_INTERVAL))]

\* The field values apply_interaction_effects hands to AgentState(...); a need
\* the effects dict does not name has delta 0.
apply_interaction_effects(state, effects) ==
    [state EXCEPT
        !.energy = Max(0, Min(NeedMax, @ + effects.energy)),
        !.hunger = Max(0, Min(NeedMax, @ + effects.hunger)),
        !.loneliness = Max(0, Min(NeedMax, @ + effects.loneliness)),
        !.mood = Max(MoodMin, Min(NeedMax, @ + effects.mood))]

Effects(e, h, l, m) == [energy |-> e, hunger |-> h, loneliness |-> l, mood |-> m]
NoEffects == Effects(0, 0, 0, 0)

----------------------------------------------------------------------------
(* agent_engine.py: interrupts *)

RECURSIVE interrupt_from(_, _, _)
\* The loop of check_for_interrupts from request i on; draws[i] is the outcome
\* of random.random() < 0.7 for request i.
interrupt_from(requests, draws, i) ==
    IF i > Len(requests) THEN None
    ELSE IF requests[i].initiator_type = "PLAYER"
         THEN Some(SelectedAction("join_conversation",
                       Some(ActionTarget("avatar", Some(requests[i].initiator_id), None, None)),
                       PLAYER_SCORE, None))
    ELSE IF draws[i]
         THEN Some(SelectedAction("join_conversation",
                       Some(ActionTarget("avatar", Some(requests[i].initiator_id), None, None)),
                       ROBOT_SCORE, None))
    ELSE interrupt_from(requests, draws, i + 1)

check_for_interrupts(requests, draws) == interrupt_from(requests, draws, 1)

----------------------------------------------------------------------------
(* agent_engine.py: candidate generation *)

\* calculate_social_wander_target: the random walk's displacement d = <<dx, dy>>
\* is the blend of the random and the social vector; the target is clamped to
\* the map with a margin of 2.
calculate_social_wander_target(context, d) ==
    <<Max(2, Min(MAP_WIDTH - 2, context.x + d[1])),
      Max(2, Min(MAP_HEIGHT - 2, context.y + d[2]))>>

\* The memory generate_candidate_actions finds for a nearby avatar, if any.
memory_of(context, avatar_id) ==
    IF \E k \in 1..Len(context.social_memories) :
           context.social_memories[k].to_avatar_id = avatar_id
    THEN Some(context.social_memories[
             CHOOSE k \in 1..Len(context.social_memories) :
                 /\ context.social_memories[k].to_avatar_id = avatar_id
                 /\ \A j \in 1..(k - 1) :
                        context.social_memories[j].to_avatar_id # avatar_id])
    ELSE None

\* int(context.x + (dx / dist) * 5) clamped to 1..hi, dist = max(1, |(dx, dy)|).
\* A sum below 1 is clamped to 1 whichever way int() rounds it.
flee_coordinate(c, dc, d2, hi) ==
    LET step == IF d2 = 0 THEN 0
                ELSE IF dc >= 0 THEN FloorOfScaled(FLEE_DISTANCE, dc, d2)
                ELSE 0 - CeilOfScaled(FLEE_DISTANCE, 0 - dc, d2)
    IN  Max(1, Min(hi, c + step))

\* The candidate generate_candidate_actions emits for one nearby avatar when
\* the agent is not conversing: <<>> if none.
social_candidate(context, nearby) ==
    LET memory == memory_of(context, nearby.avatar_id)
        dx == context.x - nearby.x
        dy == context.y - nearby.y
        d2 == dx * dx + dy * dy
    IN  IF /\ IsSome(memory)
           /\ Get(memory).sentiment < DISLIKE_SENTIMENT
           /\ nearby.distance <= CONVERSATION_RADIUS + AVOID_EXTRA_RADIUS
        THEN <<CandidateAction("avoid_avatar",
                   Some(ActionTarget("avatar", Some(nearby.avatar_id),
                            Some(flee_coordinate(context.x, dx, d2, 73)),
                            Some(flee_coordinate(context.y, dy, d2, 54)))))>>
        ELSE IF nearby.distance <= CONVERSATION_RADIUS
        THEN <<CandidateAction("initiate_conversation",
                   Some(ActionTarget("avatar", Some(nearby.avatar_id),
                            Some(nearby.x), Some(nearby.y))))>>
        ELSE IF nearby.distance <= SOCIAL_APPROACH_RADIUS
        THEN <<CandidateAction("move",
                   Some(ActionTarget("avatar", Some(nearby.avatar_id),
                            Some(nearby.x), Some(nearby.y))))>>
        ELSE <<>>

RECURSIVE social_candidates(_, _)
social_candidates(context, i) ==
    IF i > Len(context.nearby_avatars) THEN <<>>
    ELSE social_candidate(context, context.nearby_avatars[i])
             \o social_candidates(context, i + 1)

generate_candidate_actions_no_idle(context, wander) ==
    <<CandidateAction("wander",
          Some(ActionTarget("position", None, Some(wander[1]), Some(wander[2]))))>>
    \o (IF ~context.in_conversation THEN social_candidates(context, 1) ELSE <<>>)
    \o (IF context.in_conversation
        THEN <<CandidateAction("leave_conversation", None)>> ELSE <<>>)

generate_candidate_actions_social_always(context, wander) ==
    <<CandidateAction("idle", None),
      CandidateAction("wander",
          Some(ActionTarget("position", None, Some(wander[1]), Some(wander[2]))))>>
    \o social_candidates(context, 1)
    \o (IF context.in_conversation
        THEN <<CandidateAction("leave_conversation", None)>> ELSE <<>>)

\* generate_candidate_actions; wander is calculate_social_wander_target's result.
\* generate_candidate_actions under the mutation that the location candidates
\* are generated: the agent is offered a walk to the first location in place
\* of the wander.
generate_candidate_actions_locations(context, wander) ==
    <<CandidateAction("idle", None),
      CandidateAction("walk_to_location",
          Some(ActionTarget("location", Some("cafe"), Some(11), Some(10))))>>
    \o (IF ~context.in_conversation THEN social_candidates(context, 1) ELSE <<>>)
    \o (IF context.in_conversation
        THEN <<CandidateAction("leave_conversation", None)>> ELSE <<>>)

generate_candidate_actions(context, wander) ==
    <<CandidateAction("idle", None),
      CandidateAction("wander",
          Some(ActionTarget("position", None, Some(wander[1]), Some(wander[2]))))>>
    \o (IF ~context.in_conversation THEN social_candidates(context, 1) ELSE <<>>)
    \o (IF context.in_conversation
        THEN <<CandidateAction("leave_conversation", None)>> ELSE <<>>)

----------------------------------------------------------------------------
(* agent_engine.py: scoring.  Scores are in thousandths. *)

IsInteract(a) == a \in {"interact_food", "interact_karaoke", "interact_rest",
                        "interact_social_hub", "interact_wander_point"}

calculate_need_satisfaction(action, state) ==
      (IF IsInteract(action) THEN 0 - 100000 ELSE 0)
    + (IF action = "walk_to_location" THEN 0 - 100000 ELSE 0)
    + (IF action \in {"initiate_conversation", "join_conversation"}
       THEN 8000 + 3 * state.loneliness + 2000 ELSE 0)
    + (IF action = "leave_conversation"
       THEN 3 * (NeedMax - state.loneliness) + 1000 ELSE 0)
    + (IF action = "move" THEN 8000 + 2 * state.loneliness + 3000 ELSE 0)
    + (IF action = "wander"
       THEN 6400 + 2000 + 2 * (NeedMax - state.loneliness) ELSE 0)
    + (IF action = "idle" THEN 0 - 50000 ELSE 0)
    + (IF action = "stand_still" THEN 0 - 50000 ELSE 0)

\* calculate_personality_alignment for the actions that can be generated.
calculate_personality_alignment(action, personality) ==
      (IF action \in {"initiate_conversation", "join_conversation"}
       THEN 2 * personality.sociability + 1000 ELSE 0)
    + (IF action = "wander"
       THEN personality.curiosity + (3 * personality.energy_baseline) \div 10 + 400
       ELSE 0)
    + (IF action = "join_conversation"
       THEN (8 * personality.agreeableness) \div 10 ELSE 0)
    + (IF action = "initiate_conversation"
       THEN personality.agreeableness \div 2 ELSE 0)
    + (IF action \in {"idle", "interact_rest"}
       THEN (3 * (NeedMax - personality.energy_baseline)) \div 10 ELSE 0)
    + (IF action \in {"wander", "interact_karaoke", "interact_wander_point",
                      "interact_food", "interact_social_hub"}
       THEN personality.energy_baseline \div 2 ELSE 0)

\* calculate_social_bias; target_avatar and social_memory are Optional.  The
\* memories a context carries hold no mutual_interests (get_social_memories
\* does not load them).
calculate_social_bias(action, target_avatar, social_memory) ==
    IF ~IsSome(target_avatar) THEN 0
    ELSE (IF IsSome(social_memory)
          THEN LET m == Get(social_memory)
               IN   (IF action = "initiate_conversation"
                     THEN (8 * m.sentiment) \div 10 + m.familiarity \div 2
                          + (IF m.interaction_count > 3 THEN 200 ELSE 0)
                          + (IF m.interaction_count > 10 THEN 200 ELSE 0)
                     ELSE 0)
                  + (IF m.sentiment < 0 - 500 THEN 0 - 500 ELSE 0)
                  + (IF action = "avoid_avatar"
                     THEN (15 * Abs(m.sentiment)) \div 10
                          + (IF Get(target_avatar).distance <= 3 THEN 500 ELSE 0)
                     ELSE 0)
          ELSE (IF action = "initiate_conversation" THEN 400 ELSE 0))
       + (IF Get(target_avatar).is_online /\ action = "initiate_conversation"
          THEN 200 ELSE 0)

RECENT_INTERACTION_SECONDS == 180

\* calculate_recency_penalty for an avatar target; clock is datetime.utcnow().
calculate_recency_penalty(action, social_memory, clock) ==
    IF /\ action = "initiate_conversation"
       /\ IsSome(social_memory)
       /\ IsSome(Get(social_memory).last_interaction)
       /\ clock - Get(Get(social_memory).last_interaction) < RECENT_INTERACTION_SECONDS
    THEN (500 * (RECENT_INTERACTION_SECONDS
                    - (clock - Get(Get(social_memory).last_interaction))))
             \div RECENT_INTERACTION_SECONDS
    ELSE 0

nearby_of(context, avatar_id) ==
    IF \E k \in 1..Len(context.nearby_avatars) :
           context.nearby_avatars[k].avatar_id = avatar_id
    THEN Some(context.nearby_avatars[
             CHOOSE k \in 1..Len(context.nearby_avatars) :
                 /\ context.nearby_avatars[k].avatar_id = avatar_id
                 /\ \A j \in 1..(k - 1) :
                        context.nearby_avatars[j].avatar_id # avatar_id])
    ELSE None

\* score_action: the weighted sum (NEED 1.0, PERSONALITY 0.5, SOCIAL 2.0,
\* AFFINITY 0.0, RECENCY 0.1) plus the weighted Gaussian jitter, which is the
\* random draw `jitter`.
score_action(action, context, jitter, clock) ==
    LET avatar_target == /\ IsSome(action.target)
                         /\ Get(action.target).target_type = "avatar"
                         /\ IsSome(Get(action.target).target_id)
        target_avatar == IF avatar_target
                         THEN nearby_of(context, Get(Get(action.target).target_id))
                         ELSE None
        social_memory == IF avatar_target
                         THEN memory_of(context, Get(Get(action.target).target_id))
                         ELSE None
    IN  [action_type |-> action.action_type,
         target |-> action.target,
         utility_score |->
               calculate_need_satisfaction(action.action_type, context.state)
             + calculate_personality_alignment(action.action_type,
                                               context.personality) \div 2
             + 2 * calculate_social_bias(action.action_type, target_avatar,
                                         social_memory)
             - calculate_recency_penalty(action.action_type, social_memory,
                                         clock) \div 10
             + jitter]

\* score_all_actions; jitters[i] is the jitter drawn for candidate i.
score_all_actions(actions, context, jitters, clock) ==
    [i \in 1..Len(actions) |-> score_action(actions[i], context, jitters[i], clock)]

----------------------------------------------------------------------------
(* agent_engine.py: selection and the decision *)

\* softmax_select, "if not actions: raise ValueError(...)".
softmax_raises(actions) == Len(actions) = 0

softmax_select_idle(actions, r) ==
    [action_type |-> "idle", target |-> None, utility_score |-> 0]

\* softmax_select on a non-empty list.  Every probability is positive, so the
\* cumulative draw can stop at any index; a draw past the end falls back to
\* the last action.  r is the index the draw stops at.
softmax_select(actions, r) ==
    IF Len(actions) = 1 THEN actions[1] ELSE actions[Min(r, Len(actions))]

\* calculate_action_duration, in tenths of a second.
calculate_action_duration(action_type) ==
    CASE action_type = "idle" -> 5
      [] action_type = "wander" -> 80
      [] action_type = "walk_to_location" -> 50
      [] IsInteract(action_type) -> 30
      [] action_type = "initiate_conversation" -> 250
      [] action_type = "join_conversation" -> 250
      [] action_type = "leave_conversation" -> 10
      [] action_type = "move" -> 60
      [] action_type = "stand_still" -> 5
      [] OTHER -> 50

HasPositive(scored) == \E i \in 1..Len(scored) : scored[i].utility_score > 0
IsPositive(a) == a.utility_score > 0

\* positive_filter under the mutation that nothing is filtered out.
positive_filter_keep_all(scored) == scored

\* The list make_decision hands to softmax_select.
positive_filter(scored) ==
    IF HasPositive(scored) THEN SelectSeq(scored, IsPositive) ELSE scored

\* make_decision.  rnd holds the random draws of one call: draws (the
\* interrupt check), wander (the wander displacement), jitters, pick (where
\* the softmax draw stops).  The result records what ran: interrupted,
\* the candidates, raised (softmax_select's ValueError on an empty list) and
\* the SelectedAction.
make_decision(context, rnd, clock) ==
    LET interrupt_action ==
            check_for_interrupts(context.pending_conversation_requests, rnd.draws)
        candidates ==
            generate_candidate_actions(
                context, calculate_social_wander_target(context, rnd.wander))
        scored == positive_filter(
                      score_all_actions(candidates, context, rnd.jitters, clock))
        selected == softmax_select(scored, rnd.pick)
    IN  IF IsSome(interrupt_action)
        THEN [interrupted |-> TRUE, candidates |-> <<>>, raised |-> FALSE,
              action |-> Get(interrupt_action)]
        ELSE IF softmax_raises(scored)
        THEN [interrupted |-> FALSE, candidates |-> candidates, raised |-> TRUE,
              action |-> SelectedAction("idle", None, 0, None)]
        ELSE [interrupted |-> FALSE, candidates |-> candidates, raised |-> FALSE,
              action |-> SelectedAction(selected.action_type, selected.target,
                             selected.utility_score,
                             Some(calculate_action_duration(selected.action_type)))]

----------------------------------------------------------------------------
(* SpecFn: the pure functions applied to inputs drawn from small sets *)

MaxCalls == 2        \* decays and effect applications chained on one state
MaxNearby == 2       \* length of the nearby-avatar list
MaxRequests == 2     \* length of the pending-request list

AgentState(e, h, l, m) ==
    [energy |-> e, hunger |-> h, loneliness |-> l, mood |-> m,
     current_action |-> "idle", current_action_target |-> None,
     action_started_at |-> None, action_expires_at |-> None, last_tick |-> None]

\* Valid AgentStates: the defaults of generate_random_state, a lonely agent,
\* and drained agents in the lowest mood AgentState allows.
StateChoices ==
    {AgentState(1000, 0, 0, 1000), AgentState(1000, 0, 990, 0),
     AgentState(0, 1000, 0, 0 - 1000), AgentState(0, 1000, 990, 0 - 1000)}

\* Seconds since the last tick: none, one decay interval, an agent left
\* unpolled for some forty hours.
ElapsedChoices == {0, 300, 150000}

\* The effect dicts of execute_action (idle, initiate, avoid) and two of
\* arbitrary magnitude.
EffectChoices ==
    {Effects(50, 0, 0, 10), Effects(0 - 50, 0, 0 - 200, 0),
     Effects(0 - 30, 0, 0, 0 - 50),
     Effects(5000, 0 - 5000, 5000, 0 - 5000),
     Effects(0 - 5000, 5000, 0 - 5000, 5000)}

AgentPersonality(s, c, a, e) ==
    [sociability |-> s, curiosity |-> c, agreeableness |-> a, energy_baseline |-> e]

PersonalityChoices == {AgentPersonality(500, 500, 500, 500)}

NearbyAvatar(id, x, y, distance, online) ==
    [avatar_id |-> id, x |-> x, y |-> y, distance |-> distance, is_online |-> online]

SocialMemory(to, sentiment, familiarity, count, last) ==
    [to_avatar_id |-> to, sentiment |-> sentiment, familiarity |-> familiarity,
     interaction_count |-> count, last_interaction |-> last]

PositionChoices == {<<10, 10>>, <<2, 3>>}

\* Avatars east of the agent: within conversation radius, within the avoid
\* radius only, within approach radius, out of range.
NearbyPool(pos) ==
    {NearbyAvatar("a1", pos[1] + 2, pos[2], 2, TRUE),
     NearbyAvatar("a2", pos[1] + 17, pos[2], 17, FALSE),
     NearbyAvatar("a3", pos[1] + 25, pos[2], 25, FALSE),
     NearbyAvatar("a4", pos[1] + 40, pos[2], 40, TRUE)}

SeqsUpTo(S, n) == UNION {[1..k -> S] : k \in 0..n}

\* No memory, a disliked a1 and a2, a liked a1 talked to a minute ago.
MemoryChoices ==
    {<<>>,
     <<SocialMemory("a1", 0 - 600, 300, 5, None),
       SocialMemory("a2", 0 - 400, 100, 1, None)>>,
     <<SocialMemory("a1", 500, 300, 5, Some(940))>>}

AgentContext(pos, personality, state, memories, nearby, conversing, requests) ==
    [x |-> pos[1], y |-> pos[2], personality |-> personality, state |-> state,
     social_memories |-> memories, nearby_avatars |-> nearby,
     in_conversation |-> conversing, pending_conversation_requests |-> requests]

ContextsAt(state, pos) ==
    {AgentContext(pos, personality, state, memories, nearby, conversing, <<>>) :
        personality \in PersonalityChoices,
        memories \in MemoryChoices, conversing \in BOOLEAN,
        nearby \in SeqsUpTo(NearbyPool(pos), MaxNearby)}

ContextChoices(state) == UNION {ContextsAt(state, pos) : pos \in PositionChoices}

Request(id, type) == [initiator_id |-> id, initiator_type |-> type]
RequestPool == {Request("p1", "PLAYER"), Request("r1", "ROBOT")}

WanderChoices == {<<3, 0 - 2>>, <<0 - 30, 50>>}
JitterChoices == {0 - 257, 257}

\* The other avatars an upsert can name.
Avatars == {"a1", "a2"}

\* The tick record while no tick has run.
NoTick ==
    [returned |-> FALSE, failure |-> "none", fault |-> "none", clock |-> 0,
     clock2 |-> 0, decided |-> FALSE, action |-> None, result |-> "none",
     created_personality |-> FALSE, created_state |-> FALSE]

\* No endpoint is writing: the handler in flight, the rows it has yet to
\* write, how many handlers have run.
NoWriter == [op |-> "none", writes |-> <<>>, runs |-> 0]

NumUpserts == 2      \* calls of update_social_memory that may overlap
UpsertCalls == 1..NumUpserts

\* A call of update_social_memory that has not started.
NoUpsert ==
    [pc |-> "start", from |-> "none", to |-> "none", sentiment_delta |-> 0,
     familiarity_delta |-> 0, existing |-> None, raised |-> FALSE]

\* An empty agent_social_memory table and no call under way.
NoUpserts ==
    /\ memory_table = <<>>
    /\ upsert_call = [p \in UpsertCalls |-> NoUpsert]

\* The rows and the clock of the tick machine, which SpecFn and SpecLock leave
\* alone.
NoTickRows ==
    /\ writer = NoWriter
    /\ NoUpserts
    /\ now = 0
    /\ ticks = 0
    /\ agent_state = None
    /\ agent_personality = None
    /\ user_position = None
    /\ agent_social_memory = <<>>
    /\ world_interactions = <<>>
    /\ tick = NoTick

InitFn ==
    /\ fn_state \in StateChoices
    /\ fn_call = [op |-> "none", raised |-> FALSE, arg |-> <<>>, out |-> <<>>]
    /\ fn_calls = 0
    /\ fn_memory = <<>>
    /\ fn_upserts = [a \in Avatars |-> 0]
    /\ tick_lock = FALSE
    /\ poll = <<>>
    /\ NoTickRows

\* state = apply_state_decay(state, elapsed_seconds)
FnDecay(elapsed_seconds) ==
    LET new == apply_state_decay(fn_state, elapsed_seconds)
    IN  /\ fn_calls < MaxCalls
        /\ fn_calls' = fn_calls + 1
        /\ fn_call' = [op |-> "apply_state_decay", raised |-> ~AgentStateValid(new),
                       arg |-> [state |-> fn_state, elapsed_seconds |-> elapsed_seconds],
                       out |-> new]
        /\ fn_state' = IF AgentStateValid(new) THEN new ELSE fn_state
        /\ UNCHANGED <<fn_memory, fn_upserts>>
        /\ UNCHANGED nonFnVars

\* state = apply_interaction_effects(state, effects)
FnEffects(effects) ==
    LET new == apply_interaction_effects(fn_state, effects)
    IN  /\ fn_calls < MaxCalls
        /\ fn_calls' = fn_calls + 1
        /\ fn_call' = [op |-> "apply_interaction_effects",
                       raised |-> ~AgentStateValid(new),
                       arg |-> [state |-> fn_state, effects |-> effects],
                       out |-> new]
        /\ fn_state' = IF AgentStateValid(new) THEN new ELSE fn_state
        /\ UNCHANGED <<fn_memory, fn_upserts>>
        /\ UNCHANGED nonFnVars

\* The pending lists make_decision is applied to, each with the outcome of
\* its random.random() < 0.7 draws.
DecideRequests ==
    {<<<<>>, <<>>>>,
     <<<<Request("r1", "ROBOT")>>, <<FALSE>>>>,
     <<<<Request("r1", "ROBOT"), Request("p1", "PLAYER")>>, <<TRUE, TRUE>>>>,
     <<<<Request("p1", "PLAYER")>>, <<TRUE>>>>}

RndChoices(draws) ==
    [draws : {draws}, wander : {<<3, 0 - 2>>},
     jitters : {[i \in 1..(MaxNearby + 2) |-> j] : j \in JitterChoices},
     pick : 1..(MaxNearby + 2)]

\* check_for_interrupts(context) on a drawn request list
FnInterrupt ==
    /\ fn_calls = 0
    /\ \E requests \in SeqsUpTo(RequestPool, MaxRequests) :
           \E draws \in [1..Len(requests) -> BOOLEAN] :
               fn_call' = [op |-> "check_for_interrupts", raised |-> FALSE,
                           arg |-> [requests |-> requests, draws |-> draws],
                           out |-> check_for_interrupts(requests, draws)]
    /\ fn_calls' = fn_calls + 1
    /\ UNCHANGED <<fn_state, fn_memory, fn_upserts>>
    /\ UNCHANGED nonFnVars

\* generate_candidate_actions(context) on a drawn context
FnGenerate ==
    /\ fn_calls = 0
    /\ \E context \in ContextChoices(fn_state) :
           \E d \in WanderChoices :
               fn_call' = [op |-> "generate_candidate_actions", raised |-> FALSE,
                           arg |-> [context |-> context],
                           out |-> generate_candidate_actions(
                                       context,
                                       calculate_social_wander_target(context, d))]
    /\ fn_calls' = fn_calls + 1
    /\ UNCHANGED <<fn_state, fn_memory, fn_upserts>>
    /\ UNCHANGED nonFnVars

\* make_decision(context) on a drawn context with pending requests
FnDecide ==
    /\ fn_calls = 0
    /\ \E context \in ContextsAt(fn_state, <<10, 10>>) :
           \E r \in DecideRequests :
               \E rnd \in RndChoices(r[2]) :
                   LET ctx == [context EXCEPT !.pending_conversation_requests = r[1]]
                       decision == make_decision(ctx, rnd, 1000)
                   IN  fn_call' = [op |-> "make_decision", raised |-> decision.raised,
                                   arg |-> [context |-> ctx, rnd |-> rnd],
                                   out |-> decision]
    /\ fn_calls' = fn_calls + 1
    /\ UNCHANGED <<fn_state, fn_memory, fn_upserts>>
    /\ UNCHANGED nonFnVars

\* DecisionConfig.MAX_CONVERSATION_MESSAGES
MAX_CONVERSATION_MESSAGES == 12

EndDecision(should_end, farewell_message) ==
    [should_end |-> should_end, farewell_message |-> farewell_message]

\* DecisionConfig.MIN_CONVERSATION_MESSAGES
MIN_CONVERSATION_MESSAGES == 3

\* The answers of the language model to the end prompt: no client, a failed
\* call, output that is not the JSON asked for, or the JSON it returns.
LlmAnswers ==
    {"no_client", "error", "malformed", "end_with_farewell",
     "end_without_farewell", "continue"}

\* end_without_storage under the mutation that the message count is not
\* looked at.
end_without_storage_any_length(message_count, r_fallback) ==
    IF r_fallback < 200 THEN EndDecision(TRUE, Some("farewell"))
    ELSE EndDecision(FALSE, None)

\* decide_end_conversation, "if not db_client": a random end from three
\* messages on.
end_without_storage(message_count, r_fallback) ==
    IF message_count >= 3 /\ r_fallback < 200
    THEN EndDecision(TRUE, Some("farewell"))
    ELSE EndDecision(FALSE, None)

\* end_by_llm under the mutation that what the call raises is not caught:
\* the caller's handler answers in its place, without the decision.
end_by_llm_uncaught(llm, message_count) ==
    IF llm = "no_client"
    THEN IF message_count > 20 THEN EndDecision(TRUE, Some("farewell"))
         ELSE EndDecision(FALSE, None)
    ELSE IF llm = "end_with_farewell" THEN EndDecision(TRUE, Some("farewell"))
    ELSE IF llm = "end_without_farewell" THEN EndDecision(TRUE, None)
    ELSE IF llm = "continue" THEN EndDecision(FALSE, None)
    ELSE None

\* decide_end_conversation, "Use LLM to decide": the fixed rule without a
\* client, the answer of the model, and no end when the call or the parsing
\* of its output raises.
end_by_llm(llm, message_count) ==
    IF llm = "no_client"
    THEN IF message_count > 20 THEN EndDecision(TRUE, Some("farewell"))
         ELSE EndDecision(FALSE, None)
    ELSE IF llm = "end_with_farewell" THEN EndDecision(TRUE, Some("farewell"))
    ELSE IF llm = "end_without_farewell" THEN EndDecision(TRUE, None)
    ELSE EndDecision(FALSE, None)

\* decide_end_conversation.  The transcript is its length; has_storage is
\* get_supabase_client() being there, is_rude the answer of
\* analyze_message_sentiment, r_fallback and r_end the two draws of
\* random.random() in thousandths, llm the answer of the language model.
decide_end_conversation(has_storage, message_count, is_rude, r_fallback, r_end, llm) ==
    IF ~has_storage
    THEN end_without_storage(message_count, r_fallback)
    ELSE IF message_count < 3
    THEN IF is_rude THEN EndDecision(TRUE, Some("farewell"))
         ELSE EndDecision(FALSE, None)
    ELSE IF message_count >= 10
    THEN EndDecision(TRUE, Some("farewell"))
    ELSE IF r_end < Min(150 + (message_count - 3) * 100, 800)
    THEN EndDecision(TRUE, Some("farewell"))
    ELSE end_by_llm(llm, message_count)

MessageCounts == {2, 3, 9, 10, 12, 21}

RandomDraws == {100, 199, 200, 500, 900}

\* decide_end_conversation on a drawn transcript length
FnEnd ==
    /\ fn_calls = 0
    /\ \E has_storage \in BOOLEAN : \E message_count \in MessageCounts :
           \E is_rude \in BOOLEAN : \E r_fallback \in RandomDraws :
               \E r_end \in RandomDraws : \E llm \in LlmAnswers :
                   fn_call' = [op |-> "decide_end_conversation", raised |-> FALSE,
                               arg |-> [has_storage |-> has_storage,
                                        message_count |-> message_count,
                                        is_rude |-> is_rude,
                                        r_fallback |-> r_fallback,
                                        r_end |-> r_end, llm |-> llm],
                               out |-> decide_end_conversation(
                                           has_storage, message_count, is_rude,
                                           r_fallback, r_end, llm)]
    /\ fn_calls' = fn_calls + 1
    /\ UNCHANGED <<fn_state, fn_memory, fn_upserts>>
    /\ UNCHANGED nonFnVars

update_social_memory_same_count(memories, to, sentiment_delta, familiarity_delta, clock) ==
    IF \E k \in 1..Len(memories) : memories[k].to_avatar_id = to
    THEN LET i == CHOOSE k \in 1..Len(memories) : memories[k].to_avatar_id = to
         IN  [memories EXCEPT ![i] =
                 [@ EXCEPT
                     !.sentiment = Max(0 - 1000, Min(1000, @ + sentiment_delta)),
                     !.familiarity = Max(0, Min(1000, @ + familiarity_delta)),
                     !.last_interaction = Some(clock)]]
    ELSE Append(memories,
                SocialMemory(to, Max(0 - 1000, Min(1000, 500 + sentiment_delta)),
                             Max(0, Min(1000, familiarity_delta)), 1, Some(clock)))

\* update_social_memory on the agent's rows: the row for to_avatar_id is
\* updated within its ranges, or created from a sentiment of 0.5.
update_social_memory(memories, to, sentiment_delta, familiarity_delta, clock) ==
    IF \E k \in 1..Len(memories) : memories[k].to_avatar_id = to
    THEN LET i == CHOOSE k \in 1..Len(memories) :
                      /\ memories[k].to_avatar_id = to
                      /\ \A j \in 1..(k - 1) : memories[j].to_avatar_id # to
         IN  [memories EXCEPT ![i] =
                 [@ EXCEPT
                     !.sentiment = Max(0 - 1000, Min(1000, @ + sentiment_delta)),
                     !.familiarity = Max(0, Min(1000, @ + familiarity_delta)),
                     !.interaction_count = @ + 1,
                     !.last_interaction = Some(clock)]]
    ELSE Append(memories,
                SocialMemory(to, Max(0 - 1000, Min(1000, 500 + sentiment_delta)),
                             Max(0, Min(1000, familiarity_delta)), 1, Some(clock)))

\* The deltas of an upsert: past either end of the sentiment range, the
\* tick's own 0.05; none, and more than half the familiarity range.
SentimentDeltas == {0 - 900, 50, 900}
FamiliarityDeltas == {0, 600}

\* update_social_memory(client, from, to, sentiment_delta, familiarity_delta)
\* on the rows of one from-avatar, one call after another.
FnUpsert ==
    /\ fn_calls < MaxCalls
    /\ fn_call.op \in {"none", "update_social_memory"}
    /\ \E to \in Avatars : \E sd \in SentimentDeltas : \E fd \in FamiliarityDeltas :
           LET new == update_social_memory(fn_memory, to, sd, fd, 1000)
           IN  /\ fn_call' = [op |-> "update_social_memory", raised |-> FALSE,
                              arg |-> [memories |-> fn_memory, to |-> to,
                                       sentiment_delta |-> sd,
                                       familiarity_delta |-> fd],
                              out |-> new]
               /\ fn_memory' = new
               /\ fn_upserts' = [fn_upserts EXCEPT ![to] = @ + 1]
    /\ fn_calls' = fn_calls + 1
    /\ UNCHANGED fn_state
    /\ UNCHANGED nonFnVars

\* Scored candidates softmax_select is applied to: one far below zero, two
\* above, one of them twice as likely as the other.
ScoredPool ==
    {[action_type |-> "idle", target |-> None, utility_score |-> 0 - 50000],
     [action_type |-> "wander", target |-> None, utility_score |-> 9000],
     [action_type |-> "leave_conversation", target |-> None, utility_score |-> 2000]}

\* softmax_select(actions) on a drawn list, the empty one included; r is where
\* the cumulative draw stops, one past the end when it never does.
FnSelect ==
    /\ fn_calls = 0
    /\ \E actions \in SeqsUpTo(ScoredPool, MaxNearby + 1) :
           \E r \in 1..(Len(actions) + 1) :
               fn_call' = [op |-> "softmax_select", raised |-> softmax_raises(actions),
                           arg |-> [actions |-> actions, r |-> r],
                           out |-> IF softmax_raises(actions) THEN None
                                   ELSE Some(softmax_select(actions, r))]
    /\ fn_calls' = fn_calls + 1
    /\ UNCHANGED <<fn_state, fn_memory, fn_upserts>>
    /\ UNCHANGED nonFnVars

----------------------------------------------------------------------------
(* SpecLock: concurrent polls of one agent around its tick lock.            *)
(* agent_worker.py process_agent_tick, main.py try_agent_decision_system    *)
(* and get_next_agent_action.  The two lock RPCs live in the database; they *)
(* are modelled from the lock interface: acquire(agent id, max duration)    *)
(* answers a boolean, release(agent id) answers nothing and names no owner. *)

NumPolls == 2        \* polls of the one agent that may overlap

Polls == 1..NumPolls

MAX_ATTEMPTS == 3
RETRY_DELAY_MS == 150

\* acquire_agent_tick_lock: granted exactly when the lock is free.
acquire_agent_tick_lock(held) == [granted |-> ~held, held |-> TRUE]

\* release_agent_tick_lock under the mutation that it frees nothing.
release_agent_tick_lock_noop(held) == held

\* release_agent_tick_lock: frees the agent's lock, whoever took it.
release_agent_tick_lock(held) == FALSE

\* try_agent_decision_system: "if attempt < 2: time.sleep(0.15)"
sleep_after_always(attempt) == TRUE

sleep_after(attempt) == attempt < MAX_ATTEMPTS - 1

\* A poll that has not arrived yet.
\* acquired: whether the acquire of the poll's call of process_agent_tick
\* answered True (until the call returns).
NoPoll ==
    [entry |-> "none", pc |-> "idle", attempt |-> 0, calls |-> 0, slept_ms |-> 0,
     holds |-> FALSE, result |-> "pending", response |-> "pending",
     acquired |-> FALSE]

InitLock ==
    /\ tick_lock = FALSE
    /\ poll = [p \in Polls |-> NoPoll]
    /\ fn_state = AgentState(1000, 0, 0, 1000)
    /\ fn_call = [op |-> "none", raised |-> FALSE, arg |-> <<>>, out |-> <<>>]
    /\ fn_calls = 0
    /\ fn_memory = <<>>
    /\ fn_upserts = [a \in Avatars |-> 0]
    /\ NoTickRows

\* POST /agent/decision reaches try_agent_decision_system, whose loop starts
\* with attempt 0.
PollDecision(p) ==
    /\ poll[p].pc = "idle"
    /\ poll' = [poll EXCEPT ![p] = [@ EXCEPT !.entry = "decision", !.pc = "acquire",
                                             !.calls = 1]]
    /\ UNCHANGED tick_lock
    /\ UNCHANGED nonLockVars

\* POST /agent/{avatar_id}/action calls process_agent_tick once.
PollAction(p) ==
    /\ poll[p].pc = "idle"
    /\ poll' = [poll EXCEPT ![p] = [@ EXCEPT !.entry = "action", !.pc = "acquire",
                                             !.calls = 1]]
    /\ UNCHANGED tick_lock
    /\ UNCHANGED nonLockVars

\* The poll once process_agent_tick has returned.  get_next_agent_action
\* answers the result or raises HTTPException(404); try_agent_decision_system
\* leaves its loop on a result, sleeps when attempt < 2, and after the last
\* attempt returns None, on which get_agent_decision answers its fallback move.
Returned(pl, result) ==
    LET left == [pl EXCEPT !.holds = FALSE, !.acquired = FALSE]
    IN
    IF pl.entry = "action"
    THEN [left EXCEPT !.pc = "done", !.result = result,
                    !.response = IF result = "action" THEN "ok" ELSE "http_404"]
    ELSE IF result = "action"
    THEN [left EXCEPT !.pc = "done", !.result = result,
                    !.response = "decision"]
    ELSE IF sleep_after(pl.attempt)
    THEN [left EXCEPT !.pc = "sleep"]
    ELSE IF pl.attempt + 1 < MAX_ATTEMPTS
    THEN [left EXCEPT !.pc = "acquire", !.attempt = @ + 1,
                    !.calls = @ + 1]
    ELSE [left EXCEPT !.pc = "done", !.result = result,
                    !.response = "fallback"]

\* process_agent_tick, "if not agent_db.acquire_tick_lock(...): return None".
\* The RPC answers, or the call raises; a call that raised may or may not have
\* reached the database.
AcquireTickLock(p) ==
    /\ poll[p].pc = "acquire"
    /\ \E raises \in BOOLEAN, reached \in BOOLEAN :
          LET rpc == acquire_agent_tick_lock(tick_lock)
              called == [poll[p] EXCEPT !.acquired = FALSE]
          IN  IF raises
              THEN /\ tick_lock' = IF reached THEN rpc.held ELSE tick_lock
                   /\ poll' = [poll EXCEPT ![p] = [called EXCEPT !.pc = "except"]]
              ELSE /\ reached
                   /\ tick_lock' = rpc.held
                   /\ poll' = [poll EXCEPT ![p] =
                          IF rpc.granted
                          THEN [called EXCEPT !.pc = "tick", !.holds = TRUE,
                                              !.acquired = TRUE]
                          ELSE Returned(called, "lock_busy")]
    /\ UNCHANGED nonLockVars

\* process_agent_tick between the acquire and the release: build_agent_context
\* returns None, or the context is built and the tick computes and writes, or
\* a step raises.
RunTick(p) ==
    /\ poll[p].pc = "tick"
    /\ \E outcome \in {"release_no_context", "release", "except"} :
           poll' = [poll EXCEPT ![p].pc = outcome]
    /\ UNCHANGED tick_lock
    /\ UNCHANGED nonLockVars

\* process_agent_tick, the release_tick_lock calls of the try body: after
\* build_agent_context returned None, and at the end of the tick.
ReleaseTickLock(p) ==
    /\ poll[p].pc \in {"release_no_context", "release"}
    /\ \E raises \in BOOLEAN, reached \in BOOLEAN :
          IF raises
          THEN /\ tick_lock' = IF reached THEN release_agent_tick_lock(tick_lock)
                               ELSE tick_lock
               /\ poll' = [poll EXCEPT ![p] = [@ EXCEPT !.pc = "except",
                                                        !.holds = FALSE]]
          ELSE /\ reached
               /\ tick_lock' = release_agent_tick_lock(tick_lock)
               /\ poll' = [poll EXCEPT ![p] =
                      Returned(@, IF poll[p].pc = "release"
                                  THEN "action" ELSE "no_context")]
    /\ UNCHANGED nonLockVars

\* process_agent_tick, "except Exception": release_tick_lock inside its own
\* try/except-pass, then return None.
ExceptRelease(p) ==
    /\ poll[p].pc = "except"
    /\ \E reached \in BOOLEAN :
           /\ tick_lock' = IF reached THEN release_agent_tick_lock(tick_lock)
                           ELSE tick_lock
           /\ poll' = [poll EXCEPT ![p] = Returned(@, "error")]
    /\ UNCHANGED nonLockVars

\* time.sleep(0.15), then the next iteration of "for attempt in range(3)".
RetrySleep(p) ==
    /\ poll[p].pc = "sleep"
    /\ poll' = [poll EXCEPT ![p] =
           IF poll[p].attempt + 1 < MAX_ATTEMPTS
           THEN [@ EXCEPT !.pc = "acquire", !.attempt = @ + 1, !.calls = @ + 1,
                          !.slept_ms = @ + RETRY_DELAY_MS]
           ELSE [@ EXCEPT !.pc = "done", !.response = "fallback",
                          !.slept_ms = @ + RETRY_DELAY_MS]]
    /\ UNCHANGED tick_lock
    /\ UNCHANGED nonLockVars

PollStep(p) ==
    \/ AcquireTickLock(p)
    \/ RunTick(p)
    \/ ReleaseTickLock(p)
    \/ ExceptRelease(p)
    \/ RetrySleep(p)

NextLock ==
    \E p \in Polls :
        \/ PollDecision(p)
        \/ PollAction(p)
        \/ PollStep(p)

SpecLock == InitLock /\ [][NextLock]_vars

\* Every poll that has arrived keeps running.
SpecLockFair == SpecLock /\ \A p \in Polls : WF_vars(PollStep(p))

----------------------------------------------------------------------------
(* Spec: the tick state machine of one agent over its stored rows.          *)
(* agent_worker.py execute_action and process_agent_tick, agent_database.py *)
(* build_agent_context and the row operations.                              *)

MaxTicks == 2        \* ticks of the agent in one behaviour

WorldLocation(id, type, x, y, effects, duration) ==
    [id |-> id, location_type |-> type, x |-> x, y |-> y, effects |-> effects,
     duration_seconds |-> duration]

\* The rows get_all_world_locations returns: a food stall one step east of
\* the agent's first position and a karaoke stage further off.
world_locations ==
    <<WorldLocation("cafe", "food", 11, 10,
                    Effects(0 - 210, 420, 0 - 420, 210), 30),
      WorldLocation("stage", "karaoke", 14, 14,
                    Effects(0 - 420, 210, 0 - 210, 420), 30)>>

\* next((loc for loc in context.world_locations if loc.id == target_id), None)
location_of(locations, id) ==
    IF \E k \in 1..Len(locations) : locations[k].id = id
    THEN Some(locations[CHOOSE k \in 1..Len(locations) :
                  /\ locations[k].id = id
                  /\ \A j \in 1..(k - 1) : locations[j].id # id])
    ELSE None

interact_action_map(location_type) ==
    CASE location_type = "food" -> "interact_food"
      [] location_type = "karaoke" -> "interact_karaoke"
      [] location_type = "rest_area" -> "interact_rest"
      [] location_type = "social_hub" -> "interact_social_hub"
      [] location_type = "wander_point" -> "interact_wander_point"
      [] OTHER -> "idle"

\* step_toward under the mutation that the step is not bounded.
step_toward_whole(dc, d2, n) == dc

\* step_toward under the mutation that a step is taken only when it reaches
\* the location.
step_toward_stalls(dc, d2, n) == IF d2 <= n * n THEN dc ELSE 0

\* int(dc * min(1.0, n / distance)) for distance = sqrt(d2), or max(1, sqrt(d2)).
step_toward(dc, d2, n) ==
    IF d2 <= n * n THEN dc ELSE Sign(dc) * FloorOfScaled(n, Abs(dc), d2)

\* max(5, min(int(6 + random.uniform(-1, 1)), 8))
DurationChoices == {5, 6, 7}

\* action.target.model_dump(), without the name
target_of(location) ==
    ActionTarget("location", Some(location.id), Some(location.x), Some(location.y))

\* What execute_action did: the state it returns, its result message, and the
\* row it wrote on the way, if any (a new position, the avatar of a social
\* memory update, the location of a recorded world interaction).
Outcome(state, result, position, memory, interaction) ==
    [state |-> state, result |-> result, position |-> position,
     memory |-> memory, interaction |-> interaction]

\* execute_action up to its last "if": the branch of the action type.  clock
\* is datetime.utcnow() inside execute_action, chosen_duration the duration
\* drawn on starting an activity.
execute_branch(context, action, clock, chosen_duration) ==
    LET state == context.state
        type == action.action_type
        has_xy == /\ IsSome(action.target)
                  /\ IsSome(Get(action.target).x)
                  /\ IsSome(Get(action.target).y)
        has_id == IsSome(action.target) /\ IsSome(Get(action.target).target_id)
        location == IF has_id
                    THEN location_of(context.world_locations,
                                     Get(Get(action.target).target_id))
                    ELSE None
        started == [state EXCEPT
                       !.current_action_target = action.target,
                       !.action_started_at = Some(clock),
                       !.action_expires_at = Some(clock + chosen_duration)]
    IN  CASE type = "idle" ->
                 Outcome(apply_interaction_effects(state, Effects(50, 0, 0, 10)),
                         "success", None, None, None)
          [] type = "wander" ->
                 Outcome(apply_interaction_effects(state, Effects(0 - 30, 0, 0, 20)),
                         "success",
                         IF has_xy
                         THEN Some(<<context.x + Max(0 - 3, Min(3,
                                         Get(Get(action.target).x) - context.x)),
                                     context.y + Max(0 - 3, Min(3,
                                         Get(Get(action.target).y) - context.y))>>)
                         ELSE None,
                         None, None)
          [] type = "walk_to_location" ->
                 IF ~IsSome(location)
                 THEN Outcome(state, "success", None, None, None)
                 ELSE LET dx == Get(location).x - context.x
                          dy == Get(location).y - context.y
                          d2 == dx * dx + dy * dy
                      IN  IF d2 <= 1
                          THEN Outcome([started EXCEPT !.current_action =
                                            interact_action_map(Get(location).location_type)],
                                       "arrived_started_activity",
                                       None, None, Some(Get(location).id))
                          ELSE Outcome(apply_interaction_effects(
                                           state, Effects(0 - 20, 0, 0, 0)),
                                       "success",
                                       Some(<<context.x + step_toward(dx, d2, 3),
                                              context.y + step_toward(dy, d2, 3)>>),
                                       None, None)
          [] IsInteract(type) ->
                 IF ~IsSome(location)
                 THEN Outcome(state, "success", None, None, None)
                 ELSE IF ~IsSome(state.action_expires_at)
                 THEN Outcome([started EXCEPT !.current_action = type],
                              "arrived_started_activity",
                              None, None, Some(Get(location).id))
                 ELSE IF clock >= Get(state.action_expires_at)
                 THEN Outcome([apply_interaction_effects(state, Get(location).effects)
                                  EXCEPT !.current_action = "idle",
                                         !.current_action_target = None,
                                         !.action_started_at = None,
                                         !.action_expires_at = None],
                              "activity_completed", None, None, None)
                 ELSE LET total_duration ==
                              IF IsSome(state.action_started_at)
                              THEN Get(state.action_expires_at)
                                       - Get(state.action_started_at)
                              ELSE 0
                          effects == Get(location).effects
                      IN  Outcome(IF total_duration > 0
                                  THEN apply_interaction_effects(state,
                                           Effects(effects.energy \div total_duration,
                                                   effects.hunger \div total_duration,
                                                   effects.loneliness \div total_duration,
                                                   effects.mood \div total_duration))
                                  ELSE state,
                                  "activity_in_progress", None, None, None)
          [] type = "initiate_conversation" ->
                 IF has_id
                 THEN Outcome(apply_interaction_effects(
                                  state, Effects(0 - 50, 0, 0 - 200, 0)),
                              "success", None, Get(action.target).target_id, None)
                 ELSE Outcome(state, "success", None, None, None)
          [] type = "join_conversation" ->
                 Outcome(apply_interaction_effects(state, Effects(0, 0, 0 - 150, 50)),
                         "success", None, None, None)
          [] type = "avoid_avatar" ->
                 IF has_xy
                 THEN LET dx == Get(Get(action.target).x) - context.x
                          dy == Get(Get(action.target).y) - context.y
                          d2 == dx * dx + dy * dy
                      IN  Outcome(apply_interaction_effects(
                                      state, Effects(0 - 30, 0, 0, 0 - 50)),
                                  "success",
                                  Some(<<context.x + step_toward(dx, d2, 4),
                                         context.y + step_toward(dy, d2, 4)>>),
                                  None, None)
                 ELSE Outcome(state, "success", None, None, None)
          [] OTHER -> Outcome(state, "success", None, None, None)

\* execute_action under the mutation that a new action which is not an
\* activity keeps the stored action_expires_at.
execute_action_keep_expiry(context, action, clock, chosen_duration) ==
    LET branch == execute_branch(context, action, clock, chosen_duration)
        type == action.action_type
        is_new_action == branch.state.current_action # type
        is_activity == IsInteract(type)
        has_duration == /\ IsSome(action.duration_seconds)
                        /\ Get(action.duration_seconds) # 0
    IN  IF branch.result # "success" THEN branch
        ELSE [branch EXCEPT !.state =
                 [@ EXCEPT
                     !.current_action = type,
                     !.current_action_target = action.target,
                     !.action_started_at = IF is_new_action THEN Some(clock) ELSE @,
                     !.action_expires_at =
                         IF is_new_action /\ is_activity /\ has_duration
                         THEN Some(clock + Get(action.duration_seconds))
                         ELSE @]]

\* execute_action: the branch, then the action metadata unless the branch set
\* it.  A new action refreshes action_started_at; only an activity with a
\* duration gets an action_expires_at, any other new action clears it.
execute_action(context, action, clock, chosen_duration) ==
    LET branch == execute_branch(context, action, clock, chosen_duration)
        type == action.action_type
        is_new_action == branch.state.current_action # type
        is_activity == IsInteract(type)
        has_duration == /\ IsSome(action.duration_seconds)
                        /\ Get(action.duration_seconds) # 0
    IN  IF branch.result # "success" THEN branch
        ELSE [branch EXCEPT !.state =
                 [@ EXCEPT
                     !.current_action = type,
                     !.current_action_target = action.target,
                     !.action_started_at = IF is_new_action THEN Some(clock) ELSE @,
                     !.action_expires_at =
                         IF is_new_action /\ is_activity /\ has_duration
                         THEN Some(clock + Get(action.duration_seconds))
                         ELSE IF is_new_action /\ ~is_activity THEN None
                         ELSE @]]

\* execute_action(context, make_decision(context)) on a drawn context: what
\* the executor does with each action the decision can select.
FnExecute ==
    /\ fn_calls = 0
    /\ \E context \in ContextsAt(fn_state, <<10, 10>>) :
           \E r \in DecideRequests :
               \E rnd \in RndChoices(r[2]) :
                   LET ctx == [context EXCEPT !.pending_conversation_requests = r[1]]
                       decision == make_decision(ctx, rnd, 1000)
                   IN  /\ ~decision.raised
                       /\ fn_call' = [op |-> "execute_action", raised |-> FALSE,
                                      arg |-> [context |-> ctx,
                                               action |-> decision.action],
                                      out |-> execute_action(ctx, decision.action,
                                                             1000, 6)]
    /\ fn_calls' = fn_calls + 1
    /\ UNCHANGED <<fn_state, fn_memory, fn_upserts>>
    /\ UNCHANGED nonFnVars

NextFn ==
    \/ FnEnd
    \/ FnSelect
    \/ FnUpsert
    \/ \E elapsed_seconds \in ElapsedChoices : FnDecay(elapsed_seconds)
    \/ \E effects \in EffectChoices : FnEffects(effects)
    \/ FnInterrupt
    \/ FnGenerate
    \/ FnDecide
    \/ FnExecute

SpecFn == InitFn /\ [][NextFn]_vars

\* generate_random_state: the row build_agent_context creates when the agent
\* has none.
generate_random_state == AgentState(1000, 0, 0, 1000)

\* build_agent_context under the mutation that a missing row is not created.
build_agent_context_no_create(position, personality, state, memories, env, random_personality) ==
    [context |->
         IF IsSome(position) /\ IsSome(personality) /\ IsSome(state)
         THEN Some([x |-> Get(position).x, y |-> Get(position).y,
                    personality |-> Get(personality), state |-> Get(state),
                    social_memories |-> memories,
                    nearby_avatars |-> env.nearby,
                    world_locations |-> world_locations,
                    in_conversation |->
                        Get(position).conversation_state = "IN_CONVERSATION",
                    pending_conversation_requests |-> env.requests])
         ELSE None,
     personality |-> personality, state |-> state]

\* build_agent_context: None without a position row; otherwise the context,
\* with the personality and the state rows created when missing.  env is
\* what the other avatars' rows answer: who is nearby, who asks to talk.
build_agent_context(position, personality, state, memories, env, random_personality) ==
    IF ~IsSome(position)
    THEN [context |-> None, personality |-> personality, state |-> state]
    ELSE LET p == IF IsSome(personality) THEN personality
                  ELSE Some(random_personality)
             st == IF IsSome(state) THEN state ELSE Some(generate_random_state)
         IN  [context |->
                  Some([x |-> Get(position).x, y |-> Get(position).y,
                        personality |-> Get(p), state |-> Get(st),
                        social_memories |-> memories,
                        nearby_avatars |-> env.nearby,
                        world_locations |-> world_locations,
                        in_conversation |->
                            Get(position).conversation_state = "IN_CONVERSATION",
                        pending_conversation_requests |-> env.requests]),
              personality |-> p, state |-> st]

\* process_agent_tick under the mutation that an activity is never continued.
continuing_action_never(context, clock) == None

\* process_agent_tick, "Check for ongoing interact activities": the action the
\* agent is committed to while its activity has not expired, if any.
continuing_action(context, clock) ==
    LET state == context.state
        target == state.current_action_target
        location == location_of(context.world_locations, Get(Get(target).target_id))
    IN  IF /\ IsInteract(state.current_action)
           /\ IsSome(target)
           /\ IsSome(Get(target).target_id)
           /\ IsSome(state.action_expires_at)
           /\ clock < Get(state.action_expires_at)
           /\ IsSome(location)
        THEN Some(SelectedAction(state.current_action, Some(target_of(Get(location))),
                                 10000, Some(Get(location).duration_seconds)))
        ELSE None

\* walking_action under the mutation that a walk commits the agent to nothing.
walking_action_never(context) == None

\* process_agent_tick, "Check if agent is mid-walk": the next step of the walk,
\* or the activity of the location once the agent is within one unit of it.
walking_action(context) ==
    LET state == context.state
        target == state.current_action_target
        location == location_of(context.world_locations, Get(Get(target).target_id))
        dx == Get(location).x - context.x
        dy == Get(location).y - context.y
    IN  IF /\ state.current_action = "walk_to_location"
           /\ IsSome(target)
           /\ IsSome(Get(target).target_id)
           /\ IsSome(location)
        THEN IF dx * dx + dy * dy > 1
             THEN Some(SelectedAction("walk_to_location",
                                      Some(target_of(Get(location))), 5000, None))
             ELSE Some(SelectedAction(
                           interact_action_map(Get(location).location_type),
                           Some(target_of(Get(location))), 10000,
                           Some(Get(location).duration_seconds)))
        ELSE None

\* release_agent_tick_lock on the agent's row: "Release tick lock and update
\* last_tick timestamp".
release_tick_lock(state, clock) ==
    IF IsSome(state) THEN Some([Get(state) EXCEPT !.last_tick = Some(clock)])
    ELSE None

\* update_avatar_position: an UPDATE of the agent's row.
update_avatar_position(position, xy) ==
    IF IsSome(position)
    THEN Some([Get(position) EXCEPT !.x = xy[1], !.y = xy[2]])
    ELSE None

\* The agent's rows as one record.
Rows(state, personality, position, memories, interactions) ==
    [state |-> state, personality |-> personality, position |-> position,
     memories |-> memories, interactions |-> interactions]

\* What a tick that returned None leaves in the tick record: why it returned
\* None, and the call that raised, if one did.
Failed(failure, fault, clock, clock2, decided, action, result, built) ==
    [returned |-> FALSE, failure |-> failure, fault |-> fault, clock |-> clock,
     clock2 |-> clock2, decided |-> decided, action |-> action, result |-> result,
     created_personality |-> built[1], created_state |-> built[2]]

\* process_agent_tick from execute_action on: execute_action and its row
\* write, update_state, release_tick_lock, the returned dict; a call that
\* raises ends in the handler, which releases the lock and returns None.
\* created is the rows after build_agent_context, built which of them it
\* created, fault the call that raises, if any.
run_action(created, built, context, action, decided, clock, clock2, chosen_duration, fault) ==
    LET out == execute_action(context, action, clock2, chosen_duration)
        side_failed == /\ fault = "side_write"
                       /\ \/ IsSome(out.position)
                          \/ IsSome(out.memory)
                          \/ IsSome(out.interaction)
        written == [created EXCEPT
                       !.position = IF IsSome(out.position)
                                    THEN update_avatar_position(@, Get(out.position))
                                    ELSE @,
                       !.memories = IF IsSome(out.memory)
                                    THEN update_social_memory(@, Get(out.memory),
                                                              50, 100, clock2)
                                    ELSE @,
                       !.interactions = IF IsSome(out.interaction)
                                        THEN Append(@, Get(out.interaction))
                                        ELSE @]
        updated == [written EXCEPT !.state = Some(out.state)]
        selected == Some([action_type |-> action.action_type,
                          target |-> action.target])
    IN  IF side_failed
        THEN [rows |-> [created EXCEPT !.state = release_tick_lock(@, clock2)],
              ret |-> Failed("error", fault, clock, clock2, decided, selected,
                             "none", built)]
        ELSE IF fault = "update_state"
        THEN [rows |-> [written EXCEPT !.state = release_tick_lock(@, clock2)],
              ret |-> Failed("error", fault, clock, clock2, decided, selected,
                             out.result, built)]
        ELSE IF fault = "release"
        THEN [rows |-> [updated EXCEPT !.state = release_tick_lock(@, clock2)],
              ret |-> Failed("error", fault, clock, clock2, decided, selected,
                             out.result, built)]
        ELSE [rows |-> [updated EXCEPT !.state = release_tick_lock(@, clock2)],
              ret |-> [returned |-> TRUE, failure |-> "none", fault |-> "none",
                       clock |-> clock, clock2 |-> clock2, decided |-> decided, action |-> selected,
                       result |-> out.result,
                       created_personality |-> built[1],
                       created_state |-> built[2]]]

Position(x, y, conversation_state) ==
    [x |-> x, y |-> y, conversation_state |-> conversation_state]

Env(nearby, requests) == [nearby |-> nearby, requests |-> requests]

\* What the other avatars' rows answer: nobody around, a robot two steps
\* east (get_nearby_avatars looks 5 units around), the robot asking to talk.
EnvChoices(position) ==
    IF ~IsSome(position) THEN {Env(<<>>, <<>>)}
    ELSE LET a1 == NearbyAvatar("a1", Get(position).x + 2, Get(position).y,
                                2, FALSE)
         IN  {Env(<<>>, <<>>), Env(<<a1>>, <<>>),
              Env(<<a1>>, <<Request("a1", "ROBOT")>>)}

\* The random draws of one make_decision in a tick; the wander displacement
\* is the one that leaves the map.
TickRnd(env) ==
    [draws : [1..Len(env.requests) -> BOOLEAN], wander : {<<0 - 30, 50>>},
     jitters : {[i \in 1..(MaxNearby + 2) |-> 257]}, pick : 1..2]

DtChoices == {1, 8}       \* seconds from the end of a tick to the next one
SkewChoices == {0, 1}     \* seconds from the tick's clock reading to execute_action's

\* The call of a tick that fails, if any: acquire_tick_lock answers False, a
\* read of build_agent_context raises after its creates, the row write of
\* execute_action raises, update_state raises, release_tick_lock raises.
FaultChoices ==
    {"none", "lock_busy", "context", "side_write", "update_state", "release"}

\* An agent_state row as stored: needs, action, target, start, expiry, last tick.
StoredState(l, m, action, target, started, expires, last) ==
    [AgentState(1000, 0, l, m) EXCEPT
        !.current_action = action, !.current_action_target = target,
        !.action_started_at = started, !.action_expires_at = expires,
        !.last_tick = last]

\* The rows the agent starts with, at time 1000 and standing at (10, 10):
\* nothing but a position; a personality only; a state only; a lonely idle
\* agent that dislikes a1; an agent walking to the stage; one walking to the
\* cafe next to it; one eating at the cafe since 996 and until 1002; an idle
\* agent in a conversation; an agent without a position row; an agent in the
\* lowest mood whose last tick was some forty hours ago.
InitRows ==
    LET here == Some(Position(10, 10, "IDLE"))
        p == Some(AgentPersonality(500, 500, 500, 500))
        at(id) == Some(target_of(Get(location_of(world_locations, id))))
    IN  {Rows(None, None, here, <<>>, <<>>),
         Rows(None, p, here, <<>>, <<>>),
         Rows(Some(StoredState(500, 800, "idle", None, None, None, None)),
              None, here, <<>>, <<>>),
         Rows(Some(StoredState(500, 800, "idle", None, None, None, Some(990))),
              p, here, <<SocialMemory("a1", 0 - 600, 300, 5, None)>>, <<>>),
         Rows(Some(StoredState(200, 800, "walk_to_location", at("stage"),
                               Some(990), None, Some(990))),
              p, here, <<>>, <<>>),
         Rows(Some(StoredState(200, 800, "walk_to_location", at("cafe"),
                               Some(990), None, Some(990))),
              p, here, <<>>, <<>>),
         Rows(Some(StoredState(600, 500, "interact_food", at("cafe"),
                               Some(996), Some(1002), Some(999))),
              p, here, <<>>, <<"cafe">>),
         Rows(Some(StoredState(200, 800, "idle", None, None, None, Some(990))),
              p, Some(Position(10, 10, "IN_CONVERSATION")), <<>>, <<>>),
         Rows(Some(StoredState(200, 800, "idle", None, None, None, Some(990))),
              p, None, <<>>, <<>>),
         Rows(Some(StoredState(200, 0 - 1000, "idle", None, None, None,
                               Some(0 - 149000))),
              p, here, <<>>, <<>>)}

Init ==
    /\ now = 1000
    /\ ticks = 0
    /\ \E rows \in InitRows :
           /\ agent_state = rows.state
           /\ agent_personality = rows.personality
           /\ user_position = rows.position
           /\ agent_social_memory = rows.memories
           /\ world_interactions = rows.interactions
    /\ tick = NoTick
    /\ fn_state = AgentState(1000, 0, 0, 1000)
    /\ fn_call = [op |-> "none", raised |-> FALSE, arg |-> <<>>, out |-> <<>>]
    /\ fn_calls = 0
    /\ fn_memory = <<>>
    /\ fn_upserts = [a \in Avatars |-> 0]
    /\ tick_lock = FALSE
    /\ poll = <<>>
    /\ writer = NoWriter
    /\ NoUpserts

\* The end of a tick: the rows it leaves, what it returned, the time it took.
Finish(clock2, outcome) ==
    /\ now' = clock2
    /\ ticks' = ticks + 1
    /\ agent_state' = outcome.rows.state
    /\ agent_personality' = outcome.rows.personality
    /\ user_position' = outcome.rows.position
    /\ agent_social_memory' = outcome.rows.memories
    /\ world_interactions' = outcome.rows.interactions
    /\ tick' = outcome.ret
    /\ UNCHANGED nonTickVars

\* process_agent_tick, dt seconds after the last tick ended.  A committed
\* action (continued activity, walk) is executed skew seconds after the
\* tick looked at the clock; a decided action stamps the same second.
process_agent_tick ==
    /\ \E dt \in DtChoices : \E fault \in FaultChoices :
         LET clock == now + dt
             stored == Rows(agent_state, agent_personality, user_position,
                            agent_social_memory, world_interactions)
         IN  IF fault = "lock_busy"
             THEN Finish(clock, [rows |-> stored,
                                 ret |-> Failed("lock_busy", fault, clock, clock,
                                                FALSE, None, "none",
                                                <<FALSE, FALSE>>)])
             ELSE \E env \in EnvChoices(user_position) :
                  \E random_personality \in PersonalityChoices :
                    LET ctx == build_agent_context(user_position, agent_personality,
                                   agent_state, agent_social_memory, env,
                                   random_personality)
                        built == <<ctx.personality # agent_personality,
                                   ctx.state # agent_state>>
                        created == [stored EXCEPT !.personality = ctx.personality,
                                                  !.state = ctx.state]
                        released == [created EXCEPT !.state =
                                         release_tick_lock(@, clock)]
                    IN  IF ~IsSome(ctx.context)
                        THEN Finish(clock, [rows |-> released,
                                 ret |-> Failed("no_context", "none", clock, clock,
                                                FALSE, None, "none", built)])
                        ELSE IF fault = "context"
                        THEN Finish(clock, [rows |-> released,
                                 ret |-> Failed("error", fault, clock, clock,
                                                FALSE, None, "none", built)])
                        ELSE
                    LET last_tick == Get(ctx.context).state.last_tick
                        elapsed == IF IsSome(last_tick) THEN clock - Get(last_tick)
                                   ELSE 300
                        decayed == apply_state_decay(Get(ctx.context).state, elapsed)
                        context == [Get(ctx.context) EXCEPT !.state = decayed]
                        continuing == continuing_action(context, clock)
                        committed == IF IsSome(continuing) THEN continuing
                                     ELSE walking_action(context)
                    IN  IF ~AgentStateValid(decayed)
                        THEN Finish(clock, [rows |-> released,
                                 ret |-> Failed("error", "none", clock, clock,
                                                FALSE, None, "none", built)])
                        ELSE IF IsSome(committed)
                        THEN \E skew \in SkewChoices :
                             \E chosen_duration \in DurationChoices :
                                Finish(clock + skew,
                                       run_action(created, built, context,
                                           Get(committed), FALSE, clock,
                                           clock + skew, chosen_duration, fault))
                        ELSE \E rnd \in TickRnd(env) :
                                Finish(clock,
                                       run_action(created, built, context,
                                           make_decision(context, rnd, clock).action,
                                           TRUE, clock, clock, 6, fault))

\* A poll of the agent runs one tick.
Tick == ticks < MaxTicks /\ process_agent_tick

Next == Tick

Spec == Init /\ [][Next]_vars

----------------------------------------------------------------------------
(* The endpoints that write agent_state beside the tick *)

\* update_state: an UPDATE of the needs and the action fields of the row.
update_state(stored, state) ==
    IF IsSome(stored)
    THEN Some([Get(stored) EXCEPT
                  !.energy = state.energy, !.hunger = state.hunger,
                  !.loneliness = state.loneliness, !.mood = state.mood,
                  !.current_action = state.current_action,
                  !.current_action_target = state.current_action_target,
                  !.action_started_at = state.action_started_at,
                  !.action_expires_at = state.action_expires_at])
    ELSE None

\* create_state: an upsert of the needs, the action and its target.
create_state(stored, state) ==
    IF IsSome(stored)
    THEN Some([Get(stored) EXCEPT
                  !.energy = state.energy, !.hunger = state.hunger,
                  !.loneliness = state.loneliness, !.mood = state.mood,
                  !.current_action = state.current_action,
                  !.current_action_target = state.current_action_target])
    ELSE Some(state)

\* initialize_agent without a personality argument: a generated personality
\* and a generated state are upserted.
initialize_agent(rows, random_personality) ==
    [rows EXCEPT !.personality = Some(random_personality),
                 !.state = create_state(@, generate_random_state)]

\* Handlers and ticks together are bounded by MaxTicks.
WriterBudget == ticks + writer.runs < MaxTicks

\* try_agent_decision_system, "if not personality or not state": the agent
\* is initialized before process_agent_tick is called.
InitializeAgent ==
    /\ WriterBudget
    /\ agent_personality = None \/ agent_state = None
    /\ \E random_personality \in PersonalityChoices :
           LET rows == initialize_agent(
                           Rows(agent_state, agent_personality, user_position,
                                agent_social_memory, world_interactions),
                           random_personality)
           IN  /\ agent_state' = rows.state
               /\ agent_personality' = rows.personality
    /\ writer' = [writer EXCEPT !.runs = @ + 1]
    /\ UNCHANGED <<now, ticks, user_position, agent_social_memory,
                   world_interactions, tick>>
    /\ UNCHANGED <<fnVars, lockVars, memVars>>

\* Mood changes of process_message_sentiment, in thousandths.
MoodChanges == {0 - 150, 100}

\* apply_realtime_mood_update up to its call of update_state: the row is read
\* and its mood moved within [-1, 1].
MoodRead ==
    /\ WriterBudget
    /\ writer.op = "none"
    /\ IsSome(agent_state)
    /\ \E mood_change \in MoodChanges :
           writer' = [op |-> "apply_realtime_mood_update",
                      writes |-> <<[Get(agent_state) EXCEPT
                                      !.mood = Max(0 - 1000,
                                                   Min(1000, @ + mood_change))]>>,
                      runs |-> writer.runs + 1]
    /\ UNCHANGED <<fnVars, lockVars, tickVars, memVars>>

\* complete_activity, the stats by location type, without custom effects.
\* progress is in thousandths.
completed_stats(state, location_type, progress, completed_full) ==
    CASE location_type = "food" ->
             [state EXCEPT
                 !.hunger = IF completed_full THEN 0
                            ELSE Max(0, (@ * (1000 - progress)) \div 1000),
                 !.mood = Min(1000, @ + (100 * progress) \div 1000)]
      [] location_type = "karaoke" ->
             [state EXCEPT
                 !.mood = IF completed_full THEN 1000
                          ELSE Min(1000, @ + ((1000 - @) * progress) \div 1000),
                 !.loneliness = Max(0, @ - (300 * progress) \div 1000)]
      [] OTHER -> state

ProgressChoices == {500, 1000}

\* complete_activity up to its first update_state: the row is read, or
\* initialized when there is none, and the two rows it will write are made,
\* the stats first and then the action set to idle.
CompleteActivityRead ==
    /\ WriterBudget
    /\ writer.op = "none"
    /\ \E random_personality \in PersonalityChoices :
       \E location_type \in {"food", "karaoke"} :
       \E progress \in ProgressChoices : \E completed_full \in BOOLEAN :
           LET stored == Rows(agent_state, agent_personality, user_position,
                              agent_social_memory, world_interactions)
               rows == IF IsSome(agent_state) THEN stored
                       ELSE initialize_agent(stored, random_personality)
               state == IF IsSome(agent_state) THEN Get(agent_state)
                        ELSE generate_random_state
               stats == completed_stats(state, location_type, progress,
                                        completed_full)
           IN  /\ agent_state' = rows.state
               /\ agent_personality' = rows.personality
               /\ writer' = [op |-> "complete_activity",
                             writes |-> <<stats,
                                          [stats EXCEPT
                                              !.current_action = "idle",
                                              !.current_action_target = None]>>,
                             runs |-> writer.runs + 1]
    /\ UNCHANGED <<now, ticks, user_position, agent_social_memory,
                   world_interactions, tick>>
    /\ UNCHANGED <<fnVars, lockVars, memVars>>

\* start_activity up to its update_state: the row is read, or initialized
\* when there is none, and given the action of the location.
StartActivityRead ==
    /\ WriterBudget
    /\ writer.op = "none"
    /\ \E random_personality \in PersonalityChoices :
       \E k \in 1..Len(world_locations) :
           LET stored == Rows(agent_state, agent_personality, user_position,
                              agent_social_memory, world_interactions)
               rows == IF IsSome(agent_state) THEN stored
                       ELSE initialize_agent(stored, random_personality)
               state == IF IsSome(agent_state) THEN Get(agent_state)
                        ELSE generate_random_state
               location == world_locations[k]
           IN  /\ agent_state' = rows.state
               /\ agent_personality' = rows.personality
               /\ writer' = [op |-> "start_activity",
                             writes |-> <<[state EXCEPT
                                 !.current_action =
                                     interact_action_map(location.location_type),
                                 !.current_action_target =
                                     Some(ActionTarget("location", Some(location.id),
                                                       None, None))]>>,
                             runs |-> writer.runs + 1]
    /\ UNCHANGED <<now, ticks, user_position, agent_social_memory,
                   world_interactions, tick>>
    /\ UNCHANGED <<fnVars, lockVars, memVars>>

\* The update_state of the endpoint in flight: the row it made from what it
\* read is written over the stored one.
WriterWrite ==
    /\ writer.writes # <<>>
    /\ agent_state' = update_state(agent_state, Head(writer.writes))
    /\ writer' = [writer EXCEPT
                     !.writes = Tail(@),
                     !.op = IF Len(writer.writes) = 1 THEN "none" ELSE @]
    /\ UNCHANGED <<now, ticks, agent_personality, user_position,
                   agent_social_memory, world_interactions, tick>>
    /\ UNCHANGED <<fnVars, lockVars, memVars>>

\* The rows the ticks and the endpoints start with: the agents of InitRows
\* that miss a personality or are walking.
InitRowsWriters ==
    {rows \in InitRows :
        \/ rows.personality = None
        \/ /\ IsSome(rows.state)
           /\ Get(rows.state).current_action = "walk_to_location"}

InitWriters ==
    /\ now = 1000
    /\ ticks = 0
    /\ \E rows \in InitRowsWriters :
           /\ agent_state = rows.state
           /\ agent_personality = rows.personality
           /\ user_position = rows.position
           /\ agent_social_memory = rows.memories
           /\ world_interactions = rows.interactions
    /\ tick = NoTick
    /\ fn_state = AgentState(1000, 0, 0, 1000)
    /\ fn_call = [op |-> "none", raised |-> FALSE, arg |-> <<>>, out |-> <<>>]
    /\ fn_calls = 0
    /\ fn_memory = <<>>
    /\ fn_upserts = [a \in Avatars |-> 0]
    /\ tick_lock = FALSE
    /\ poll = <<>>
    /\ writer = NoWriter
    /\ NoUpserts

\* A tick between the steps of the endpoints.
WriterTick == WriterBudget /\ Tick

NextWriters ==
    \/ WriterTick
    \/ InitializeAgent
    \/ MoodRead
    \/ CompleteActivityRead
    \/ StartActivityRead
    \/ WriterWrite

SpecWriters == InitWriters /\ [][NextWriters]_vars

----------------------------------------------------------------------------
(* SpecUpserts: calls of update_social_memory that overlap *)

\* A row of agent_social_memory.
MemoryRow(from, to, sentiment, familiarity, count) ==
    [from_avatar_id |-> from, to_avatar_id |-> to, sentiment |-> sentiment,
     familiarity |-> familiarity, interaction_count |-> count]

\* The indexes of the rows of a pair.
RowsOf(table, from, to) ==
    {k \in 1..Len(table) :
        table[k].from_avatar_id = from /\ table[k].to_avatar_id = to}

\* get_social_memory: the first row of the pair, with its index as id.
get_social_memory(table, from, to) ==
    IF RowsOf(table, from, to) = {} THEN None
    ELSE LET k == CHOOSE i \in RowsOf(table, from, to) :
                      \A j \in RowsOf(table, from, to) : i <= j
         IN  Some([id |-> k, row |-> table[k]])

\* update_social_memory up to its write: the pair's row is read.
UpsertRead(p) ==
    /\ upsert_call[p].pc = "start"
    /\ \E from \in Avatars : \E to \in Avatars \ {from} :
       \E sd \in SentimentDeltas : \E fd \in FamiliarityDeltas :
           upsert_call' = [upsert_call EXCEPT ![p] =
               [pc |-> "read", from |-> from, to |-> to, sentiment_delta |-> sd,
                familiarity_delta |-> fd,
                existing |-> get_social_memory(memory_table, from, to),
                raised |-> FALSE]]
    /\ UNCHANGED memory_table
    /\ UNCHANGED nonMemVars

\* update_social_memory, "if existing": the row that was read is updated by
\* its id with values made from the copy that was read.
UpsertUpdate(p) ==
    /\ upsert_call[p].pc = "read"
    /\ IsSome(upsert_call[p].existing)
    /\ LET call == upsert_call[p]
           existing == Get(call.existing)
       IN  memory_table' = [memory_table EXCEPT ![existing.id] =
               [@ EXCEPT
                   !.sentiment = Max(0 - 1000, Min(1000,
                                     existing.row.sentiment + call.sentiment_delta)),
                   !.familiarity = Max(0, Min(1000,
                                     existing.row.familiarity + call.familiarity_delta)),
                   !.interaction_count = existing.row.interaction_count + 1]]
    /\ upsert_call' = [upsert_call EXCEPT ![p].pc = "done"]
    /\ UNCHANGED nonMemVars

\* update_social_memory, "else": a row with a new id is inserted.
UpsertInsert(p) ==
    /\ upsert_call[p].pc = "read"
    /\ ~IsSome(upsert_call[p].existing)
    /\ LET call == upsert_call[p]
       IN  memory_table' = Append(memory_table,
               MemoryRow(call.from, call.to,
                         Max(0 - 1000, Min(1000, 500 + call.sentiment_delta)),
                         Max(0, Min(1000, call.familiarity_delta)), 1))
    /\ upsert_call' = [upsert_call EXCEPT ![p].pc = "done"]
    /\ UNCHANGED nonMemVars

\* The insert is refused: the table, whose definition is not in the
\* repository, may not accept a second row of a pair; the call then raises.
UpsertInsertRefused(p) ==
    /\ upsert_call[p].pc = "read"
    /\ ~IsSome(upsert_call[p].existing)
    /\ RowsOf(memory_table, upsert_call[p].from, upsert_call[p].to) # {}
    /\ upsert_call' = [upsert_call EXCEPT ![p].pc = "done", ![p].raised = TRUE]
    /\ UNCHANGED memory_table
    /\ UNCHANGED nonMemVars

InitUpserts ==
    /\ fn_state = AgentState(1000, 0, 0, 1000)
    /\ fn_call = [op |-> "none", raised |-> FALSE, arg |-> <<>>, out |-> <<>>]
    /\ fn_calls = 0
    /\ fn_memory = <<>>
    /\ fn_upserts = [a \in Avatars |-> 0]
    /\ tick_lock = FALSE
    /\ poll = <<>>
    /\ NoTickRows

NextUpserts ==
    \E p \in UpsertCalls :
        \/ UpsertRead(p)
        \/ UpsertUpdate(p)
        \/ UpsertInsert(p)
        \/ UpsertInsertRefused(p)

SpecUpserts == InitUpserts /\ [][NextUpserts]_vars

----------------------------------------------------------------------------
(* Properties of the pure functions, checked under SpecFn *)

HasCandidate(candidates, type) ==
    \E i \in 1..Len(candidates) : candidates[i].action_type = type

PlayerIds(requests) ==
    {requests[i].initiator_id :
        i \in {j \in 1..Len(requests) : requests[j].initiator_type = "PLAYER"}}

\* C7: every apply_state_decay and every apply_interaction_effects on a valid
\* state returns a state with energy, hunger and loneliness in [0,1] and mood
\* in [-1,1], and none fails on the range check of AgentState.
C7_NeedsStayInRange ==
    fn_call.op \in {"apply_state_decay", "apply_interaction_effects"}
        => /\ ~fn_call.raised
           /\ AgentStateValid(fn_call.out)

\* C8: when the pending list holds a PLAYER request, check_for_interrupts
\* returns JOIN_CONVERSATION targeting a PLAYER requester, whatever else is
\* pending and in whatever order.
C8_PlayerAlwaysAccepted ==
    (/\ fn_call.op = "check_for_interrupts"
     /\ PlayerIds(fn_call.arg.requests) # {})
        => /\ IsSome(fn_call.out)
           /\ Get(fn_call.out).action_type = "join_conversation"
           /\ Get(Get(Get(fn_call.out).target).target_id)
                  \in PlayerIds(fn_call.arg.requests)

\* C10: generate_candidate_actions returns a non-empty list holding an IDLE
\* and a WANDER candidate for every context, and make_decision never hands
\* softmax_select an empty list.
C10_IdleAndWanderAlways ==
    /\ fn_call.op = "generate_candidate_actions"
           => /\ Len(fn_call.out) > 0
              /\ HasCandidate(fn_call.out, "idle")
              /\ HasCandidate(fn_call.out, "wander")
    /\ fn_call.op = "make_decision" => ~fn_call.raised

\* C10 witnesses: candidates generated for a conversing agent with a full
\* nearby list.
C10_Witness ==
    /\ fn_call.op = "generate_candidate_actions"
    /\ fn_call.arg.context.in_conversation
    /\ Len(fn_call.arg.context.nearby_avatars) = MaxNearby
    /\ HasCandidate(fn_call.out, "idle")
    /\ HasCandidate(fn_call.out, "wander")

\* C11: for a conversing context generate_candidate_actions emits a
\* LEAVE_CONVERSATION candidate and no INITIATE_CONVERSATION, AVOID_AVATAR or
\* MOVE candidate, whoever is nearby; for any other context it emits no
\* LEAVE_CONVERSATION candidate.
C11_ConversingOnlyLeaves ==
    fn_call.op = "generate_candidate_actions"
        => IF fn_call.arg.context.in_conversation
           THEN /\ HasCandidate(fn_call.out, "leave_conversation")
                /\ ~HasCandidate(fn_call.out, "initiate_conversation")
                /\ ~HasCandidate(fn_call.out, "avoid_avatar")
                /\ ~HasCandidate(fn_call.out, "move")
           ELSE ~HasCandidate(fn_call.out, "leave_conversation")

\* C11 witnesses: a conversing agent with a disliked avatar two steps away
\* and another within approach radius gets LEAVE_CONVERSATION.
C11_Witness ==
    /\ fn_call.op = "generate_candidate_actions"
    /\ fn_call.arg.context.in_conversation
    /\ \E i, j \in 1..Len(fn_call.arg.context.nearby_avatars) :
           /\ fn_call.arg.context.nearby_avatars[i].avatar_id = "a1"
           /\ fn_call.arg.context.nearby_avatars[j].avatar_id = "a3"
    /\ \E k \in 1..Len(fn_call.arg.context.social_memories) :
           /\ fn_call.arg.context.social_memories[k].to_avatar_id = "a1"
           /\ fn_call.arg.context.social_memories[k].sentiment < DISLIKE_SENTIMENT
    /\ HasCandidate(fn_call.out, "leave_conversation")

\* C12: softmax_select returns an element of its list for every non-empty
\* list and every draw, the only candidate of a one-element list, and raises
\* instead of returning on the empty list.
C12_SelectsFromList ==
    fn_call.op = "softmax_select"
        => LET actions == fn_call.arg.actions
           IN  /\ Len(actions) = 0 => (fn_call.raised /\ fn_call.out = None)
               /\ Len(actions) > 0
                      => /\ ~fn_call.raised
                         /\ IsSome(fn_call.out)
                         /\ \E i \in 1..Len(actions) : Get(fn_call.out) = actions[i]
               /\ Len(actions) = 1 => fn_call.out = Some(actions[1])

\* C12 witnesses: a draw that never stops on a list of three falls back to
\* its last element.
C12_Witness ==
    /\ fn_call.op = "softmax_select"
    /\ Len(fn_call.arg.actions) = 3
    /\ fn_call.arg.r = 4
    /\ fn_call.out = Some(fn_call.arg.actions[3])

\* C14: for every transcript whose length has reached the maximum,
\* decide_end_conversation answers should_end with a farewell, whether or not
\* storage and the language model are there.
C14_ForcedEnd ==
    (/\ fn_call.op = "decide_end_conversation"
     /\ fn_call.arg.message_count >= MAX_CONVERSATION_MESSAGES)
        => /\ fn_call.out.should_end
           /\ IsSome(fn_call.out.farewell_message)

\* The indexes of the rows from the avatar to another one.
EdgesTo(memories, to) == {k \in 1..Len(memories) : memories[k].to_avatar_id = to}

C13_Call ==
    LET before == fn_call.arg.memories
        after == fn_call.out
        to == fn_call.arg.to
        new == after[CHOOSE k \in EdgesTo(after, to) : TRUE]
        old == before[CHOOSE k \in EdgesTo(before, to) : TRUE]
    IN  /\ Cardinality(EdgesTo(after, to)) = 1
        /\ IF EdgesTo(before, to) = {}
           THEN new.interaction_count = 1
           ELSE /\ new.interaction_count = old.interaction_count + 1
                /\ new.sentiment
                       = Max(0 - 1000, Min(1000, old.sentiment
                                                    + fn_call.arg.sentiment_delta))
                /\ new.familiarity
                       = Max(0, Min(1000, old.familiarity
                                              + fn_call.arg.familiarity_delta))
        /\ \A a \in Avatars \ {to} :
               /\ Cardinality(EdgesTo(after, a)) = Cardinality(EdgesTo(before, a))
               /\ \A k \in EdgesTo(after, a) : after[k] = before[k]

\* C13: the first update_social_memory for a pair creates its one row with
\* interaction count 1; every later one raises the count by exactly 1 and
\* moves sentiment and familiarity by the deltas, clamped to [-1,1] and [0,1];
\* other pairs' rows are left alone; after n upserts, one after another, the
\* pair's count is n.
C13_UpsertCounts ==
    /\ fn_call.op = "update_social_memory" => C13_Call
    /\ \A a \in Avatars :
           IF fn_upserts[a] = 0 THEN EdgesTo(fn_memory, a) = {}
           ELSE /\ Cardinality(EdgesTo(fn_memory, a)) = 1
                /\ \A k \in EdgesTo(fn_memory, a) :
                       fn_memory[k].interaction_count = fn_upserts[a]

\* C13 witnesses: the second upsert for a1 found the sentiment at the top of
\* its range and left it there, with count 2.
C13_Witness ==
    /\ fn_call.op = "update_social_memory"
    /\ fn_call.arg.to = "a1"
    /\ fn_call.arg.sentiment_delta = 900
    /\ fn_upserts["a1"] = 2
    /\ \E k \in EdgesTo(fn_memory, "a1") :
           /\ fn_memory[k].interaction_count = 2
           /\ fn_memory[k].sentiment = 1000
           /\ fn_call.arg.memories[k].sentiment = 1000

----------------------------------------------------------------------------
(* Properties of the polls and the tick lock, checked under SpecLock *)

\* C1: no two invocations of process_agent_tick for the agent are at once
\* between their successful acquire_tick_lock and their release_tick_lock.
C1_AtMostOneTick ==
    Cardinality({p \in Polls : poll[p].holds}) <= 1

C4_Attempts(p) ==
    /\ poll[p].calls <= 3
    /\ poll[p].slept_ms = 150 * (poll[p].calls - 1)
    /\ (poll[p].pc = "done" /\ poll[p].result # "action")
           => (poll[p].calls = 3 /\ poll[p].response = "fallback")

\* C4: a poll through try_agent_decision_system calls process_agent_tick at
\* most 3 times, has slept 150 ms before each call but the first and never
\* after the last, ends without a decision when every attempt failed, and
\* always ends.
C4_BoundedRetry ==
    /\ [](\A p \in Polls : poll[p].entry = "decision" => C4_Attempts(p))
    /\ \A p \in Polls : (poll[p].entry = "decision") ~> (poll[p].pc = "done")

\* C4 witnesses: a poll that found the lock busy three times and gave up
\* after two pauses.
C4_Witness ==
    \E p \in Polls :
        /\ poll[p].entry = "decision"
        /\ poll[p].pc = "done"
        /\ poll[p].calls = 3
        /\ poll[p].result = "lock_busy"
        /\ poll[p].slept_ms = 300
        /\ poll[p].response = "fallback"

\* C5: a poll that ends because the tick lock was unavailable answers "no
\* decision", at either entry point; it never answers an error status.
C5_LockBusyIsNoDecision ==
    \A p \in Polls :
        (poll[p].pc = "done" /\ poll[p].result = "lock_busy")
            => poll[p].response = "fallback"

----------------------------------------------------------------------------
(* Properties of the tick state machine, checked under Spec *)

\* A step that is one process_agent_tick.
Ticked == ticks' = ticks + 1

\* The stored state is an interaction with a location of the world and has
\* an action_expires_at.
InActivity(state) ==
    /\ IsSome(state)
    /\ IsInteract(Get(state).current_action)
    /\ IsSome(Get(state).current_action_target)
    /\ IsSome(Get(Get(state).current_action_target).target_id)
    /\ IsSome(location_of(world_locations,
                          Get(Get(Get(state).current_action_target).target_id)))
    /\ IsSome(Get(state).action_expires_at)

ActivityLocation(state) ==
    Get(location_of(world_locations,
                    Get(Get(Get(state).current_action_target).target_id)))

\* The stored row but for its last_tick, which release_tick_lock stamps.
Persisted(state) ==
    IF IsSome(state) THEN Some([Get(state) EXCEPT !.last_tick = None]) ELSE None

C2_Continue ==
    (/\ Ticked
     /\ InActivity(agent_state)
     /\ tick'.returned
     /\ tick'.clock2 < Get(Get(agent_state).action_expires_at))
        => LET old == Get(agent_state)
               new == Get(agent_state')
               effects == ActivityLocation(agent_state).effects
               total == Get(old.action_expires_at) - Get(old.action_started_at)
           IN  /\ ~tick'.decided
               /\ Get(tick'.action).action_type = old.current_action
               /\ Get(Get(tick'.action).target).target_id
                      = Get(old.current_action_target).target_id
               /\ tick'.result = "activity_in_progress"
               /\ IsSome(old.action_started_at)
                      => /\ new.energy
                               = Max(0, Min(NeedMax, NeedMax + effects.energy \div total))
                         /\ new.hunger
                               = Max(0, Min(NeedMax, effects.hunger \div total))
                         /\ new.energy # Max(0, Min(NeedMax, NeedMax + effects.energy))
               /\ new.current_action = old.current_action
               /\ new.current_action_target = old.current_action_target
               /\ new.action_started_at = old.action_started_at
               /\ new.action_expires_at = old.action_expires_at

\* C2: a tick that finds an interaction with a location whose expiry is still
\* ahead when the action is executed runs no decision, re-emits the same
\* action on the same location, reports "activity_in_progress", applies
\* 1/total_duration of the location's effects (on the decayed energy 1.0 and
\* hunger 0.0), and leaves current action, target, start and expiry as stored.
C2_ContinueStep == [][C2_Continue]_vars

\* C2 witnesses: the agent went on eating at the cafe, a sixth of the cafe's
\* energy effect taken off.
C2_Witness ==
    /\ tick.returned
    /\ tick.result = "activity_in_progress"
    /\ ~tick.decided
    /\ IsSome(agent_state)
    /\ Get(agent_state).current_action = "interact_food"
    /\ Get(agent_state).action_expires_at = Some(1002)
    /\ Get(agent_state).energy = 965

C3_Complete ==
    (/\ Ticked
     /\ InActivity(agent_state)
     /\ tick'.returned
     /\ tick'.clock >= Get(Get(agent_state).action_expires_at))
        => LET new == Get(agent_state')
               effects == ActivityLocation(agent_state).effects
           IN  /\ tick'.result = "activity_completed"
               /\ new.current_action = "idle"
               /\ new.current_action_target = None
               /\ new.action_started_at = None
               /\ new.action_expires_at = None
               /\ new.energy = Max(0, Min(NeedMax, NeedMax + effects.energy))
               /\ new.hunger = Max(0, Min(NeedMax, effects.hunger))

\* C3: a tick that finds an interaction with a location whose expiry has
\* passed reports "activity_completed", applies the location's effects to the
\* needs, and stores the action idle with target, start and expiry cleared.
C3_CompletionStep == [][C3_Complete]_vars

C6_Failed ==
    (Ticked /\ ~tick'.returned)
        => /\ Persisted(agent_state') = Persisted(agent_state)
           /\ user_position' = user_position
           /\ agent_social_memory' = agent_social_memory

\* C6: a tick that returns None leaves the agent's state row (but for the
\* last_tick stamp of the lock release), its position row and its social
\* memory rows exactly as they were before the tick.
C6_FailedTickWritesNothing == [][C6_Failed]_vars

C9_Lazy ==
    /\ (/\ Ticked
        /\ IsSome(user_position)
        /\ agent_state = None \/ agent_personality = None
        /\ tick'.fault = "none")
           => /\ tick'.returned
              /\ tick'.failure = "none"
              /\ IsSome(tick'.action)
              /\ agent_state = None => tick'.decided
              /\ IsSome(agent_state')
              /\ IsSome(agent_personality')
    /\ (Ticked /\ agent_state = None /\ tick'.fault = "context")
           => Persisted(agent_state') = Some(AgentState(1000, 0, 0, 1000))

\* C9: a tick of an agent with a position but without a personality row or
\* without a state row, in which no call fails, creates the missing rows,
\* selects an action and returns a result; the state row it creates holds
\* energy 1, hunger 0, loneliness 0, mood 1 and the action idle (seen as
\* stored when a later read of the same tick fails).
C9_LazyInitialization == [][C9_Lazy]_vars

\* C9 witnesses: a tick that created both rows, decided and returned.
C9_Witness ==
    /\ tick.returned
    /\ tick.created_state
    /\ tick.created_personality
    /\ tick.decided
    /\ IsSome(agent_state)
    /\ IsSome(agent_personality)

\* C15: in every agent_state row stored after any sequence of ticks, an
\* action_expires_at comes with an action_started_at that is not later.
C15_StartBeforeExpiry ==
    (IsSome(agent_state) /\ IsSome(Get(agent_state).action_expires_at))
        => /\ IsSome(Get(agent_state).action_started_at)
           /\ Get(Get(agent_state).action_started_at)
                  <= Get(Get(agent_state).action_expires_at)

\* C15 witness: a tick that arrived at a location has stored the activity
\* with both timestamps.
C15_Witness ==
    /\ ticks >= 1
    /\ tick.returned
    /\ tick.result = "arrived_started_activity"
    /\ IsSome(agent_state)
    /\ IsSome(Get(agent_state).action_expires_at)
    /\ IsSome(Get(agent_state).action_started_at)
    /\ Get(Get(agent_state).action_started_at)
           < Get(Get(agent_state).action_expires_at)

\* The stored state is a walk to a location of the world.
Walking(state) ==
    /\ IsSome(state)
    /\ Get(state).current_action = "walk_to_location"
    /\ IsSome(Get(state).current_action_target)
    /\ IsSome(Get(Get(state).current_action_target).target_id)
    /\ IsSome(location_of(world_locations,
                          Get(Get(Get(state).current_action_target).target_id)))

\* The squared distance from a position to the location of the stored action.
Distance2(position, state) ==
    LET location == ActivityLocation(state)
        dx == location.x - Get(position).x
        dy == location.y - Get(position).y
    IN  dx * dx + dy * dy

C18_Arrive ==
    (/\ Ticked
     /\ Walking(agent_state)
     /\ IsSome(user_position)
     /\ Distance2(user_position, agent_state) <= 1
     /\ tick'.returned)
        => LET new == Get(agent_state')
               location == ActivityLocation(agent_state)
           IN  /\ ~tick'.decided
               /\ tick'.result = "arrived_started_activity"
               /\ new.current_action = interact_action_map(location.location_type)
               /\ InActivity(agent_state')
               /\ ActivityLocation(agent_state') = location
               /\ tick'.clock <= tick'.clock2
               /\ new.action_started_at = Some(tick'.clock2)
               /\ Get(new.action_expires_at) > tick'.clock2
               /\ IsSome(continuing_action(
                             [state |-> new, world_locations |-> world_locations],
                             tick'.clock2))

\* C18: a tick of an agent that is walking to a location and is within one
\* unit of it, if it returns a result, makes no decision and stores the
\* interaction of the location's type with action_started_at at the time the
\* tick executes it and a later action_expires_at, so that the agent is
\* committed to the activity.
C18_ArrivalStep == [][C18_Arrive]_vars

\* C18 witness: the agent next to the cafe has started to eat.
C18_Witness ==
    /\ ticks = 1
    /\ tick.returned
    /\ ~tick.decided
    /\ tick.result = "arrived_started_activity"
    /\ IsSome(agent_state)
    /\ Get(agent_state).current_action = "interact_food"
    /\ Get(agent_state).action_started_at = Some(tick.clock2)
    /\ world_interactions = <<"cafe">>

C19_Walk ==
    (/\ Ticked
     /\ Walking(agent_state)
     /\ IsSome(user_position)
     /\ Distance2(user_position, agent_state) > 1
     /\ tick'.returned)
        => LET new == Get(agent_state')
               dx == Get(user_position').x - Get(user_position).x
               dy == Get(user_position').y - Get(user_position).y
           IN  /\ ~tick'.decided
               /\ dx * dx + dy * dy <= 9
               /\ Distance2(user_position', agent_state)
                      < Distance2(user_position, agent_state)
               /\ new.current_action = "walk_to_location"
               /\ new.current_action_target = Get(agent_state).current_action_target
               /\ new.action_expires_at = None

\* C19: a tick of an agent that is walking to a location more than one unit
\* away, if it returns a result, makes no decision, moves the agent at most
\* 3 units and nearer to the location, and leaves the action walk_to_location
\* without an action_expires_at.
C19_WalkingStep == [][C19_Walk]_vars

\* C19 witness: the agent walking to the stage has taken a step and walks on.
C19_Witness ==
    /\ ticks = 1
    /\ tick.returned
    /\ ~tick.decided
    /\ Walking(agent_state)
    /\ Get(Get(agent_state).current_action_target).target_id = Some("stage")
    /\ user_position = Some(Position(12, 12, "IDLE"))
    /\ Get(agent_state).action_expires_at = None

\* The actions that are neither a walk nor an activity.
Unlocked ==
    {"idle", "wander", "avoid_avatar", "initiate_conversation",
     "join_conversation", "leave_conversation"}

C20_Refresh ==
    (/\ Ticked
     /\ tick'.returned
     /\ IsSome(tick'.action)
     /\ Get(tick'.action).action_type \in Unlocked)
        => /\ Get(agent_state').action_started_at = Some(tick'.clock2)
           /\ Get(agent_state').action_expires_at = None

\* C20: after a tick that executed idle, wander, avoid or a conversation
\* action, also when the stored action was the same, the stored
\* action_started_at is the time of the tick and action_expires_at is null.
C20_UnlockedRefreshes == [][C20_Refresh]_vars

----------------------------------------------------------------------------
(* Properties of the ticks and the other writers, checked under SpecWriters *)

\* C16: a stored agent_state is written only by a tick: a step that is not a
\* tick leaves the row as it is, so nothing overwrites the action, the target,
\* action_started_at or action_expires_at a tick has written.
C16_OnlyTicksWrite ==
    [][(~Ticked /\ IsSome(agent_state)) => agent_state' = agent_state]_vars

C17_Initialized ==
    /\ ~Ticked
    /\ IsSome(agent_state)
    /\ agent_personality = None
    /\ IsSome(agent_personality')

\* C17: lazy initialization of an agent whose personality is missing leaves
\* the needs and the action fields of its existing agent_state as they are.
C17_StateNeverReset == [][C17_Initialized => agent_state' = agent_state]_vars

----------------------------------------------------------------------------
(* Properties of execute_action on decided actions, checked under SpecFn *)

\* The actions of the decision that are movements to a target position.
Movements == {"wander", "move", "walk_to_location"}

\* The squared distance between two positions.
Dist2(ax, ay, bx, by) == (bx - ax) * (bx - ax) + (by - ay) * (by - ay)

C21_Moved ==
    LET context == fn_call.arg.context
        target == Get(fn_call.arg.action.target)
        out == fn_call.out
        tx == Get(target.x)
        ty == Get(target.y)
    IN  /\ IsSome(out.position)
        /\ Abs(Get(out.position)[1] - context.x) <= 3
        /\ Abs(Get(out.position)[2] - context.y) <= 3
        /\ Dist2(Get(out.position)[1], Get(out.position)[2], tx, ty)
               < Dist2(context.x, context.y, tx, ty)
        /\ out.state.energy <= context.state.energy
        /\ context.state.energy > 0 => out.state.energy < context.state.energy

\* C21: executing a movement the decision selected (wander to a position,
\* move toward an avatar, walk to a location) whose target is not where the
\* agent stands writes a position at most 3 units away on each axis and
\* nearer to the target, and lowers the energy.
C21_MovementSteps ==
    (/\ fn_call.op = "execute_action"
     /\ fn_call.arg.action.action_type \in Movements
     /\ IsSome(fn_call.arg.action.target)
     /\ IsSome(Get(fn_call.arg.action.target).x)
     /\ IsSome(Get(fn_call.arg.action.target).y)
     /\ <<Get(Get(fn_call.arg.action.target).x),
          Get(Get(fn_call.arg.action.target).y)>>
            # <<fn_call.arg.context.x, fn_call.arg.context.y>>)
        => C21_Moved

----------------------------------------------------------------------------
(* Properties of make_decision, checked under SpecFn *)

\* The scored candidates of the make_decision call in fn_call.
C22_Scored ==
    score_all_actions(fn_call.out.candidates, fn_call.arg.context,
                      fn_call.arg.rnd.jitters, 1000)

\* The selected action is the i-th scored candidate.
C22_Selected(i) ==
    /\ C22_Scored[i].action_type = fn_call.out.action.action_type
    /\ C22_Scored[i].target = fn_call.out.action.target
    /\ C22_Scored[i].utility_score = fn_call.out.action.utility_score

\* C22: when no interrupt fires, make_decision selects one of the scored
\* candidates, and one of positive utility whenever some candidate has
\* positive utility.
C22_PositiveSelected ==
    (/\ fn_call.op = "make_decision"
     /\ ~fn_call.out.interrupted
     /\ ~fn_call.raised)
        => /\ \E i \in 1..Len(C22_Scored) : C22_Selected(i)
           /\ HasPositive(C22_Scored) => fn_call.out.action.utility_score > 0

\* C22 witness: idle scored below zero, another candidate above, and the
\* softmax draw stopped at the first of the list: that one is positive.
C22_Witness ==
    /\ fn_call.op = "make_decision"
    /\ ~fn_call.out.interrupted
    /\ ~fn_call.raised
    /\ fn_call.arg.rnd.pick = 1
    /\ \E i \in 1..Len(C22_Scored) : C22_Scored[i].utility_score <= 0
    /\ fn_call.out.action.utility_score > 0

----------------------------------------------------------------------------
(* Properties of overlapping upserts, checked under SpecUpserts *)

\* C23: whatever the interleaving of the calls of update_social_memory, the
\* table holds at most one row for each ordered pair of avatars.
C23_OneEdgePerPair ==
    \A from \in Avatars : \A to \in Avatars :
        Cardinality(RowsOf(memory_table, from, to)) <= 1

----------------------------------------------------------------------------
(* Properties of decide_end_conversation, checked under SpecFn *)

\* C24: for a transcript of fewer than three messages decide_end_conversation
\* ends only when the last message was found rude, and with storage it ends
\* exactly then; otherwise it answers no end and no farewell.
C24_ShortEndsOnlyOnRude ==
    (/\ fn_call.op = "decide_end_conversation"
     /\ fn_call.arg.message_count < MIN_CONVERSATION_MESSAGES)
        => /\ fn_call.out.should_end => fn_call.arg.is_rude
           /\ fn_call.arg.has_storage
                  => (fn_call.out.should_end <=> fn_call.arg.is_rude)
           /\ ~fn_call.out.should_end => fn_call.out.farewell_message = None

\* C24 witness: a rude second message ends the conversation with a farewell.
C24_Witness ==
    /\ fn_call.op = "decide_end_conversation"
    /\ fn_call.arg.message_count = 2
    /\ fn_call.arg.has_storage
    /\ fn_call.arg.is_rude
    /\ fn_call.out.should_end
    /\ IsSome(fn_call.out.farewell_message)

\* The language model was consulted and gave no decision.
C25_Consulted ==
    /\ fn_call.op = "decide_end_conversation"
    /\ fn_call.arg.has_storage
    /\ fn_call.arg.message_count >= 3
    /\ fn_call.arg.message_count < 10
    /\ fn_call.arg.r_end >= Min(150 + (fn_call.arg.message_count - 3) * 100, 800)
    /\ fn_call.arg.llm \in {"no_client", "error", "malformed"}

\* C25: when the language model is not there, raises or answers with
\* malformed output, decide_end_conversation still returns a decision, the
\* one of its fixed rules: no end and no farewell below twenty messages.
C25_LlmFailureDegrades ==
    C25_Consulted
        => /\ fn_call.out # None
           /\ fn_call.out = EndDecision(FALSE, None)

\* C25 witness: the call to the model raised and the decision is to go on.
C25_Witness ==
    /\ C25_Consulted
    /\ fn_call.arg.llm = "error"
    /\ fn_call.arg.message_count = 9
    /\ fn_call.out = EndDecision(FALSE, None)

----------------------------------------------------------------------------
(* Properties of the release of the tick lock, checked under SpecLock *)

\* The places of a poll inside process_agent_tick after its acquire.
InTick == {"tick", "release", "release_no_context", "except"}

\* The places of a poll where process_agent_tick calls release_tick_lock.
ReleaseCalls == {"release", "release_no_context", "except"}

\* The call of process_agent_tick of poll p, which had acquired the lock,
\* returns in this step.
TickReturns(p) ==
    /\ poll[p].pc \in InTick
    /\ poll'[p].pc \notin InTick
    /\ poll[p].acquired

\* C26 as stated: when a call of process_agent_tick that acquired the lock
\* returns, on whatever path, the lock is not left held: it is free unless
\* another call of process_agent_tick is under way.
C26_NeverLeftHeld ==
    [][\A p \in Polls :
          TickReturns(p)
              => (tick_lock' => \E q \in Polls \ {p} : poll[q].pc \in InTick)]_vars

\* C26 amended: a call of process_agent_tick that acquired the lock returns
\* only from a call of release_tick_lock, on every path, and the lock is
\* free when it returns from the release of the try body (the handler's
\* release may fail unnoticed).
C26_ReleaseCalled ==
    [][\A p \in Polls :
          TickReturns(p)
              => /\ poll[p].pc \in ReleaseCalls
                 /\ poll[p].pc \in {"release", "release_no_context"}
                        => ~tick_lock']_vars

\* C26 witness: a tick that acquired the lock and decided an action has
\* returned, its release reached the database and the lock is free.
C26_Witness ==
    \E p \in Polls :
        /\ poll[p].pc = "done"
        /\ poll[p].result = "action"
        /\ ~tick_lock

\* C27: a call of process_agent_tick whose acquire did not answer True
\* (it answered False or raised) never frees the lock while another call of
\* process_agent_tick is between its acquire and its release.
C27_ReleaseOnlyOwnLock ==
    [][\A p \in Polls :
          (/\ poll[p].pc \in InTick
           /\ ~poll[p].acquired
           /\ poll'[p] # poll[p])
              => ~(/\ tick_lock
                   /\ ~tick_lock'
                   /\ \E q \in Polls \ {p} :
                          poll[q].pc \in {"tick", "release", "release_no_context"})]_vars

----------------------------------------------------------------------------
(* Properties of the position of a conversing agent, checked under Spec *)

\* The conversation flag of the agent, as build_agent_context reads it.
in_conversation ==
    /\ IsSome(user_position)
    /\ Get(user_position).conversation_state = "IN_CONVERSATION"

\* C28: a tick of an agent whose conversation flag is true leaves the
\* agent's position as it was.
C28_ConversingStaysPut ==
    [][(Ticked /\ in_conversation)
          => /\ Get(user_position').x = Get(user_position).x
             /\ Get(user_position').y = Get(user_position).y]_vars

----------------------------------------------------------------------------
(* Properties of the states that ticks alone can reach, checked under Spec *)

\* The action tags of the WALKING and IN_ACTIVITY states.
IsCommitted(action_type) ==
    action_type = "walk_to_location" \/ IsInteract(action_type)

\* A stored state that is neither WALKING nor IN_ACTIVITY and has no expiry.
Free(state) ==
    /\ IsSome(state)
    /\ ~IsCommitted(Get(state).current_action)
    /\ Get(state).action_expires_at = None

\* C29: the action that make_decision returns in a tick is never
\* walk_to_location or interact_*, and a tick of an agent whose stored action
\* is neither of them and whose expiry is null leaves the stored state so.
C29_Step ==
    Ticked
        => /\ (tick'.decided /\ IsSome(tick'.action))
                  => ~IsCommitted(Get(tick'.action).action_type)
           /\ Free(agent_state) => Free(agent_state')

----------------------------------------------------------------------------
(* SpecWalk: a walking agent polled again and again, with no other writer *)

\* Where the walks start.
WalkStarts == {<<10, 10>>, <<12, 10>>}

\* The rows of an agent at a start, walking to the stage or to the cafe.
InitRowsWalk ==
    LET p == Some(AgentPersonality(500, 500, 500, 500))
        at(id) == Some(target_of(Get(location_of(world_locations, id))))
    IN  {Rows(Some(StoredState(200, 800, "walk_to_location", at(id),
                               Some(990), None, Some(990))),
              p, Some(Position(s[1], s[2], "IDLE")), <<>>, <<>>) :
            s \in WalkStarts, id \in {"stage", "cafe"}}

InitWalk ==
    /\ now = 1000
    /\ ticks = 0
    /\ \E rows \in InitRowsWalk :
           /\ agent_state = rows.state
           /\ agent_personality = rows.personality
           /\ user_position = rows.position
           /\ agent_social_memory = rows.memories
           /\ world_interactions = rows.interactions
    /\ tick = NoTick
    /\ fn_state = AgentState(1000, 0, 0, 1000)
    /\ fn_call = [op |-> "none", raised |-> FALSE, arg |-> <<>>, out |-> <<>>]
    /\ fn_calls = 0
    /\ fn_memory = <<>>
    /\ fn_upserts = [a \in Avatars |-> 0]
    /\ tick_lock = FALSE
    /\ poll = <<>>
    /\ writer = NoWriter
    /\ NoUpserts

\* The number of ticks of a walk that are followed.
MaxWalkTicks == 5

\* The walking agent can be ticked.
Pollable == Walking(agent_state) /\ ticks < MaxWalkTicks

\* A tick of the walking agent.  The first MaxTicks ticks may fail in any of
\* the ways a tick fails; the later ones return a result.
WalkTick ==
    /\ Pollable
    /\ process_agent_tick
    /\ tick'.returned \/ ticks < MaxTicks

NextWalk == WalkTick

\* The caller polls the agent again and again: a tick that stays possible
\* is run (weak fairness of WalkTick, which is enabled where Pollable holds
\* and whose steps are the steps that count a tick).
SpecWalk ==
    /\ InitWalk
    /\ [][NextWalk]_vars
    /\ []<>(~Pollable) \/ []<><<Ticked>>_vars

\* C30: an agent that is walking to a location, ticked again and again with
\* no other writer of its position or state, eventually starts the activity
\* of the location.
C30_WalkingTerminates == Walking(agent_state) ~> InActivity(agent_state)

\* C30 witness: the agent that started between 5 and 6 units from the stage
\* has walked there in two steps and started the karaoke in a third tick or
\* later.
C30_Witness ==
    /\ ticks >= 3
    /\ tick.returned
    /\ tick.result = "arrived_started_activity"
    /\ InActivity(agent_state)
    /\ Get(agent_state).current_action = "interact_karaoke"
    /\ IsSome(user_position)
    /\ Distance2(user_position, agent_state) <= 1

====
